---- MODULE Spec2Model ----
(***************************************************************************)
(* Model of the location-tracking session of the satellite tracker         *)
(* (App component, src/unnamed/part_000).                                  *)
(*                                                                         *)
(* React state and refs are variables.  A handler together with the        *)
(* re-render and the effects it triggers is one action (state updates of   *)
(* one handler are batched into one render).  Callbacks that outlive the   *)
(* render that created them (position-watch callbacks, single-shot request *)
(* callbacks, the reconnection loop's timer callback, toast actions, a     *)
(* permission query being awaited) carry the values their closure          *)
(* captured.  Interval callbacks are re-created by their effect whenever a *)
(* dependency changes, so they read the current state.                     *)
(*                                                                         *)
(* Positions lie on one meridian, LatStepMm millimetres of arc apart.      *)
(* Time since the last accepted fix is counted in ticks of TickMs and      *)
(* saturates at MaxElapsed.                                                *)
(*                                                                         *)
(* The map view (MapView component, src/unnamed/part_006) is modelled next *)
(* to the session: its zoom and gesture refs, its tile loads with retry    *)
(* and provider fallback, and its frames.  The zoom is counted in steps of *)
(* PINCH_ZOOM_SENSITIVITY (0.005 level, ZoomUnit steps per level), touch   *)
(* distances in pixels.                                                    *)
(***************************************************************************)
EXTENDS Integers, Sequences, FiniteSets, TLC

\* ---- program constants ----
GPS_TIMEOUT_THRESHOLD == 3000
JitterThresholdMm == 1000

\* ---- bounds of the model ----
MaxPos == 2
LatStepMm == 600
TickMs == 2000
MaxElapsed == 2
MaxTrail == 2
MaxLoops == 2
MaxWatch == 2
MaxPoll == 1
MaxAttempts == 3

\* ---- program constants of the map view (part_006) ----
MAX_RETRY_ATTEMPTS == 3
RETRY_DELAY == 1000
MIN_ZOOM == 3
MAX_ZOOM == 19
DEFAULT_ZOOM == 16
\* 1 / PINCH_ZOOM_SENSITIVITY: zoom steps per zoom level
ZoomUnit == 200
\* failures of the active provider at which loadTile switches provider
FailoverThreshold == 3
TILE_SIZE == 256
\* part_005: DEFAULT_ZOOM, and the world pixel x of DEFAULT_CENTER at that zoom
RenderZoom == 12
DEFAULT_CENTER == 167715
DefaultWidth == 800

\* ---- bounds of the map view model ----
MaxTouch == 3
MaxTiles == 2
MaxFrames == 2
MaxFailures == 3
MaxShift == 8
MaxPlaces == 2
DragStep == 90

Positions == 0..MaxPos
\* the fixes of the session specification all report one place
SessionPositions == {0}
NoPos == 0 - 1
LoopIds == 1..MaxLoops
WatchIds == 1..MaxWatch
NoId == 0

TrackingStatus == {"inactive", "searching", "tracking", "paused", "reconnecting", "denied"}
PermissionStates == {"prompt", "granted", "denied"}
ErrorCodes == {"PERMISSION_DENIED", "POSITION_UNAVAILABLE", "TIMEOUT", "UNKNOWN"}

TileProvider == {"esri", "google", "osm"}
\* inter-touch distances a touch event can report, in pixels
TouchDistances == {100 * k : k \in 1..MaxTouch}
NoDistance == 0 - 1
\* map centers are latitude and longitude in whole degrees
NoCenter == [lat |-> 1000, lon |-> 1000]
Tiles == 1..MaxTiles
FrameIds == 1..MaxFrames

VARIABLES
    isTracking,            \* state isTracking
    trackingStatus,        \* state trackingStatus
    watchId,               \* state watchId (NoId = null)
    lastUpdateSet,         \* state lastUpdateTime is not null
    elapsed,               \* ticks since lastUpdateTime, saturating
    reconnectAttempts,     \* state reconnectAttempts
    trailPath,             \* state trailPath (sequence of positions)
    totalDistance,         \* state totalDistance, in millimetres
    error,                 \* state error (which message, "none" = null)
    connectionStatus,      \* state connectionStatus
    previousPositionRef,   \* ref previousPositionRef (NoPos = null)
    isReconnectingRef,     \* ref isReconnectingRef
    reconnectTimerRef,     \* ref reconnectTimerRef: loop whose timer it names
    wasTrackingBeforeBackgroundRef,
    gpsCheckTimer,         \* gpsCheckIntervalRef holds a live interval
    permissionTimer,       \* permissionCheckIntervalRef holds a live interval
    pollTimer,             \* continuousLocationIntervalRef holds a live interval
    lastToast,             \* Retry action of the toast named by lastToastIdRef
    hleCap,                \* isTracking captured by the current handleLocationError
    watches,               \* platform: active position subscriptions and their closure
    pollInFlight,          \* platform: pending getCurrentPosition of the poll
    loops,                 \* reconnection loops: position and captured isTracking
    probes,                \* permission queries awaited, by captured trackingStatus = 'denied'
    permission,            \* platform permission status
    hidden,                \* document.hidden
    geoSupported           \* 'geolocation' in navigator

\* the map view (part_006)
VARIABLES
    zoom,                  \* state zoom, in steps of 1/ZoomUnit level
    isAutoFollow,          \* state isAutoFollow
    manualCenter,          \* state manualCenter (NoCenter = null)
    isDeviceInfoOpen,      \* state isDeviceInfoOpen
    location,              \* prop location (NoCenter = null)
    isDraggingRef,         \* ref isDraggingRef
    dragStartRef,          \* ref dragStartRef: the center captured (NoCenter = null)
    isPinchingRef,         \* ref isPinchingRef
    lastPinchDistanceRef,  \* ref lastPinchDistanceRef (NoDistance = null)
    pinchCenterZoomRef,    \* ref pinchCenterZoomRef
    touches,               \* platform: number of touch points on the canvas
    pinchStartDistance,    \* history: inter-touch distance at the gesture's start
    currentProvider,       \* state currentProvider
    providerFallbackAttempts, \* state providerFallbackAttempts
    tileCache,             \* state tileCache: keys <<provider, tile>> it holds
    isDrawingRef,          \* ref isDrawingRef
    frames,                \* drawMap calls in flight and the loadTile closure they hold
    tileLoads,             \* loadTile promises of a frame: phase, attempt, fetches, delay
    exhaustedSinceSuccess, \* history: retry-exhausted tiles per provider since its last load
    drawn                  \* the canvas: what is drawn at each tile, and the overlays

appVars == <<isTracking, trackingStatus, watchId, lastUpdateSet, elapsed,
             reconnectAttempts, trailPath, totalDistance, error, connectionStatus,
             previousPositionRef, isReconnectingRef, reconnectTimerRef,
             wasTrackingBeforeBackgroundRef, gpsCheckTimer, permissionTimer,
             pollTimer, lastToast, hleCap, watches, pollInFlight, loops, probes,
             permission, hidden, geoSupported>>

gestureVars == <<zoom, isAutoFollow, manualCenter, isDeviceInfoOpen, location,
                 isDraggingRef, dragStartRef, isPinchingRef, lastPinchDistanceRef,
                 pinchCenterZoomRef, touches, pinchStartDistance>>

tileVars == <<currentProvider, providerFallbackAttempts, tileCache, isDrawingRef,
              frames, tileLoads, exhaustedSinceSuccess, drawn>>

\* the map view drawn on a tile grid (part_005), one axis
VARIABLES
    center,                \* state center: world pixel x at the tile zoom
    dimensions,            \* state dimensions: width in pixels
    pendingRenderRef,      \* ref pendingRenderRef
    animationFrameRef,     \* animationFrameRef names a live animation frame request
    canvas                 \* what the last frame drew: x of each tile and overlay point

renderVars == <<center, dimensions, pendingRenderRef, animationFrameRef, canvas>>

\* the geographic helpers (part_001, part_002, part_006) called on their own
VARIABLES
    geoArgs,               \* the arguments of the call
    geoValue               \* the value the call returned

geoVars == <<geoArgs, geoValue>>

vars == <<appVars, gestureVars, tileVars, renderVars, geoVars>>

\* ---- pure helpers ----
Abs(n) == IF n < 0 THEN 0 - n ELSE n

\* Haversine distance of two points of one meridian: a = sin^2(dphi/2),
\* c = dphi, so the result is R * |dphi|, here in millimetres.
calculateDistance(lat1, lat2) == Abs(lat2 - lat1) * LatStepMm

RECURSIVE PathLength(_)
PathLength(t) ==
    IF Len(t) < 2 THEN 0
    ELSE calculateDistance(t[1], t[2]) + PathLength(Tail(t))

Stale == elapsed * TickMs > GPS_TIMEOUT_THRESHOLD

IdleLoop == [phase |-> "idle", isTracking |-> FALSE]

\* a frame slot not in use; a loadTile promise that is settled or not started
IdleFrame == [active |-> FALSE, provider |-> "esri",
              attempts |-> [p \in TileProvider |-> 0]]
IdleLoad == [phase |-> "idle", attempt |-> 0, fetches |-> 0, delay |-> 0]
\* the canvas after clearRect and the background fill
ClearedCanvas == [tiles |-> [t \in Tiles |-> "none"], overlays |-> FALSE]

\* trail and distance kept in storage by an earlier run of the page
StoredSnapshots == { [trail |-> <<>>, distance |-> 0],
                     [trail |-> <<0, MaxPos>>, distance |-> MaxPos * LatStepMm] }

\* the map view after its first render: no touch, no frame, nothing cached
InitMapView ==
    /\ zoom = DEFAULT_ZOOM * ZoomUnit
    /\ isAutoFollow = TRUE
    /\ manualCenter = NoCenter
    /\ isDeviceInfoOpen = FALSE
    /\ location = NoCenter
    /\ isDraggingRef = FALSE
    /\ dragStartRef = NoCenter
    /\ isPinchingRef = FALSE
    /\ lastPinchDistanceRef = NoDistance
    /\ pinchCenterZoomRef = DEFAULT_ZOOM * ZoomUnit
    /\ touches = 0
    /\ pinchStartDistance = NoDistance
    /\ currentProvider = "esri"
    /\ providerFallbackAttempts = [p \in TileProvider |-> 0]
    /\ tileCache = {}
    /\ isDrawingRef = FALSE
    /\ frames = [f \in FrameIds |-> IdleFrame]
    /\ tileLoads = [f \in FrameIds |-> [t \in Tiles |-> IdleLoad]]
    /\ exhaustedSinceSuccess = [p \in TileProvider |-> 0]
    /\ drawn = ClearedCanvas

\* state after the first render and the mount effects, nothing in storage;
\* the session specifications keep the map view in its initial state
\* the grid view after its mount effect: a first frame is requested
BlankCanvas == [tiles |-> <<>>, overlay |-> <<>>]

InitRenderView ==
    /\ center = DEFAULT_CENTER
    /\ dimensions = DefaultWidth
    /\ pendingRenderRef = TRUE
    /\ animationFrameRef = TRUE
    /\ canvas = BlankCanvas

\* no helper is being called
NoCall == [fn |-> "none"]
NoValue == [kind |-> "none"]
InitGeoIdle ==
    /\ geoArgs = NoCall
    /\ geoValue = NoValue

InitSession ==
    /\ InitMapView
    /\ InitRenderView
    /\ isTracking = FALSE
    /\ trackingStatus = "inactive"
    /\ watchId = NoId
    /\ lastUpdateSet = FALSE
    /\ elapsed = 0
    /\ reconnectAttempts = 0
    /\ error = "none"
    /\ previousPositionRef = NoPos
    /\ isReconnectingRef = FALSE
    /\ reconnectTimerRef = NoId
    /\ wasTrackingBeforeBackgroundRef = FALSE
    /\ gpsCheckTimer = FALSE
    /\ permissionTimer = FALSE
    /\ pollTimer = FALSE
    /\ lastToast = "none"
    /\ hleCap = FALSE
    /\ watches = [w \in WatchIds |-> "none"]
    /\ pollInFlight = 0
    /\ loops = [l \in LoopIds |-> IdleLoop]
    /\ probes = {}
    /\ hidden = FALSE

Init ==
    /\ InitSession
    /\ InitGeoIdle
    /\ trailPath = <<>>
    /\ totalDistance = 0
    /\ connectionStatus = "online"
    /\ permission \in PermissionStates
    /\ geoSupported \in BOOLEAN

\* a device that grants the permission and stays online
InitRecovery ==
    /\ InitSession
    /\ InitGeoIdle
    /\ trailPath = <<>>
    /\ totalDistance = 0
    /\ connectionStatus = "online"
    /\ permission = "granted"
    /\ geoSupported = TRUE

\* the mount effect restores the trail and the distance an earlier run stored
InitTrail ==
    /\ InitSession
    /\ InitGeoIdle
    /\ \E s \in StoredSnapshots : trailPath = s.trail /\ totalDistance = s.distance
    /\ connectionStatus = "online"
    /\ permission = "granted"
    /\ geoSupported = TRUE

InitEvents ==
    /\ InitSession
    /\ InitGeoIdle
    /\ trailPath = <<>>
    /\ totalDistance = 0
    /\ connectionStatus \in {"online", "offline"}
    /\ permission = "granted"
    /\ geoSupported = TRUE

\* ---- re-render and effects after a handler ----
\* handleLocationError is re-created when trackingStatus changed (deps
\* [trackingStatus]) and then captures the startReconnection and startTracking
\* of that render.  The permission effect and the poll effect re-run when
\* isTracking or trackingStatus changed, the watchdog effect also when
\* lastUpdateTime changed (fixed).  after: the awaited permission queries the
\* handler leaves; the permission effect starts one when it runs.  Of a query
\* only what its continuation reads is kept: whether the trackingStatus its
\* closure captured is 'denied'; queries with the same capture count as one.
Commit(after, fixed) ==
    LET deps == isTracking' # isTracking \/ trackingStatus' # trackingStatus IN
    /\ hleCap' = IF trackingStatus' # trackingStatus THEN isTracking' ELSE hleCap
    /\ permissionTimer' = IF deps THEN isTracking' ELSE permissionTimer
    /\ probes' = IF deps /\ isTracking' THEN after \cup {trackingStatus' = "denied"} ELSE after
    /\ pollTimer' = IF deps THEN isTracking' /\ trackingStatus' # "denied" ELSE pollTimer
    /\ gpsCheckTimer' = IF deps \/ fixed THEN isTracking' /\ lastUpdateSet' ELSE gpsCheckTimer
    /\ UNCHANGED <<gestureVars, tileVars, renderVars, geoVars>>

\* clearTimeout(reconnectTimerRef.current): the timer named by the ref is
\* cancelled if it is still pending; the loop waiting on it ends.
clearReconnectTimer(ls) ==
    IF reconnectTimerRef # NoId /\ ls[reconnectTimerRef].phase = "timer"
    THEN [ls EXCEPT ![reconnectTimerRef] = IdleLoop]
    ELSE ls

HasFreeLoop == \E l \in LoopIds : loops[l].phase = "idle"
FreeLoop == CHOOSE l \in LoopIds : loops[l].phase = "idle"
HasFreeWatch == \E w \in WatchIds : watches[w] = "none"
FreeWatch == CHOOSE w \in WatchIds : watches[w] = "none"
WatchClosure(cap) == IF cap THEN "capTrue" ELSE "capFalse"
RetryToast(cap) == IF cap THEN "retryTrue" ELSE "retryFalse"

\* startReconnection that never sets the status to 'reconnecting'
startReconnectionKeepsStatus(cap, st) ==
    IF isReconnectingRef \/ ~cap
    THEN /\ isReconnectingRef' = isReconnectingRef
         /\ trackingStatus' = st
         /\ reconnectAttempts' = reconnectAttempts
         /\ loops' = loops
    ELSE /\ HasFreeLoop
         /\ isReconnectingRef' = TRUE
         /\ trackingStatus' = st
         /\ reconnectAttempts' = 0 + 1
         /\ loops' = [loops EXCEPT ![FreeLoop] = [phase |-> "request", isTracking |-> cap]]

\* startReconnection of a closure that captured isTracking = cap, called
\* after the caller set the status to st.  The first attemptReconnect runs
\* inside: the counter is set to 0 and then incremented, a request is issued.
startReconnection(cap, st) ==
    IF isReconnectingRef \/ ~cap
    THEN /\ isReconnectingRef' = isReconnectingRef
         /\ trackingStatus' = st
         /\ reconnectAttempts' = reconnectAttempts
         /\ loops' = loops
    ELSE /\ HasFreeLoop
         /\ isReconnectingRef' = TRUE
         /\ trackingStatus' = "reconnecting"
         /\ reconnectAttempts' = 0 + 1
         /\ loops' = [loops EXCEPT ![FreeLoop] = [phase |-> "request", isTracking |-> cap]]

\* trail and distance part of handleLocationUpdate
WouldAppend(p) ==
    /\ previousPositionRef # NoPos
    /\ calculateDistance(previousPositionRef, p) > JitterThresholdMm

updateTrail(p) ==
    /\ WouldAppend(p) => Len(trailPath) < MaxTrail
    /\ IF previousPositionRef # NoPos
       THEN IF calculateDistance(previousPositionRef, p) > JitterThresholdMm
            THEN /\ trailPath' = Append(trailPath, p)
                 /\ totalDistance' = totalDistance + calculateDistance(previousPositionRef, p)
            ELSE UNCHANGED <<trailPath, totalDistance>>
       ELSE /\ trailPath' = <<p>>
            /\ UNCHANGED totalDistance
    /\ previousPositionRef' = p

\* handleLocationUpdate(position); ls: the loops as the caller leaves them
handleLocationUpdate(p, ls) ==
    /\ updateTrail(p)
    /\ lastUpdateSet' = TRUE
    /\ elapsed' = 0
    /\ trackingStatus' = "tracking"
    /\ error' = "none"
    /\ isReconnectingRef' = FALSE
    /\ reconnectAttempts' = IF isReconnectingRef THEN 0 ELSE reconnectAttempts
    /\ loops' = IF isReconnectingRef THEN clearReconnectTimer(ls) ELSE ls

\* ---- user actions ----
\* startTracking of a closure that captured isTracking = cap and a
\* handleLocationError whose closure captured isTracking = hcap
startTracking(cap, hcap) ==
    IF cap
    THEN UNCHANGED <<isTracking, trackingStatus, error, watches, watchId>>
    ELSE IF geoSupported
         THEN /\ HasFreeWatch
              /\ isTracking' = TRUE
              /\ trackingStatus' = "searching"
              /\ error' = "none"
              /\ watches' = [watches EXCEPT ![FreeWatch] = WatchClosure(hcap)]
              /\ watchId' = FreeWatch
         ELSE /\ isTracking' = FALSE
              /\ trackingStatus' = "inactive"
              /\ error' = "unsupported"
              /\ UNCHANGED <<watches, watchId>>

\* the Start Tracking button (shown while isTracking is false)
StartTracking ==
    /\ ~isTracking
    /\ startTracking(isTracking, hleCap)
    /\ lastToast' = "none"
    /\ UNCHANGED <<lastUpdateSet, elapsed, reconnectAttempts, trailPath, totalDistance,
                   connectionStatus, previousPositionRef, isReconnectingRef,
                   reconnectTimerRef, wasTrackingBeforeBackgroundRef, pollInFlight,
                   loops, permission, hidden, geoSupported>>
    /\ Commit(probes, FALSE)

\* the Retry action of a 'Location Access Denied' toast: the startTracking
\* of the render that created the toast's handler
RetryFromToast ==
    /\ lastToast \in {"retryTrue", "retryFalse"}
    /\ startTracking(lastToast = "retryTrue", lastToast = "retryTrue")
    /\ lastToast' = "none"
    /\ UNCHANGED <<lastUpdateSet, elapsed, reconnectAttempts, trailPath, totalDistance,
                   connectionStatus, previousPositionRef, isReconnectingRef,
                   reconnectTimerRef, wasTrackingBeforeBackgroundRef, pollInFlight,
                   loops, permission, hidden, geoSupported>>
    /\ Commit(probes, FALSE)

\* the Stop Tracking button (shown while isTracking is true)
StopTracking ==
    /\ isTracking
    /\ watches' = IF watchId # NoId THEN [watches EXCEPT ![watchId] = "none"] ELSE watches
    /\ watchId' = NoId
    /\ loops' = clearReconnectTimer(loops)
    /\ reconnectTimerRef' = NoId
    /\ lastToast' = "none"
    /\ isTracking' = FALSE
    /\ trackingStatus' = "inactive"
    /\ reconnectAttempts' = 0
    /\ isReconnectingRef' = FALSE
    /\ UNCHANGED <<lastUpdateSet, elapsed, trailPath, totalDistance, error,
                   connectionStatus, previousPositionRef,
                   wasTrackingBeforeBackgroundRef, pollInFlight, permission,
                   hidden, geoSupported>>
    /\ Commit(probes, FALSE)

\* the Reset Trail button (shown while the trail is not empty)
resetTrail ==
    /\ Len(trailPath) > 0
    /\ trailPath' = <<>>
    /\ totalDistance' = 0
    /\ UNCHANGED <<isTracking, trackingStatus, watchId, lastUpdateSet, elapsed,
                   reconnectAttempts, error, connectionStatus, previousPositionRef,
                   isReconnectingRef, reconnectTimerRef,
                   wasTrackingBeforeBackgroundRef, lastToast, watches, pollInFlight,
                   loops, permission, hidden, geoSupported>>
    /\ Commit(probes, FALSE)

\* ---- position callbacks ----
\* success callback of a position subscription
WatchFix(w, p) ==
    /\ watches[w] # "none"
    /\ permission = "granted"
    /\ handleLocationUpdate(p, loops)
    /\ UNCHANGED <<isTracking, watchId, connectionStatus, reconnectTimerRef,
                   wasTrackingBeforeBackgroundRef, lastToast, watches, pollInFlight,
                   permission, hidden, geoSupported>>
    /\ Commit(probes, TRUE)

\* handleLocationError as the error callback of subscription w
handleLocationError(w, code) ==
    /\ watches[w] # "none"
    /\ CASE code = "PERMISSION_DENIED" ->
              /\ permission = "denied"
              /\ trackingStatus' = "denied"
              /\ lastToast' = RetryToast(watches[w] = "capTrue")
              /\ error' = "denied"
              /\ UNCHANGED <<isReconnectingRef, reconnectAttempts, loops>>
         [] code = "POSITION_UNAVAILABLE" ->
              /\ error' = "unavailable"
              /\ UNCHANGED <<trackingStatus, lastToast, isReconnectingRef,
                             reconnectAttempts, loops>>
         [] code = "TIMEOUT" ->
              /\ startReconnection(watches[w] = "capTrue", trackingStatus)
              /\ UNCHANGED <<error, lastToast>>
         [] OTHER ->
              /\ error' = "unknown"
              /\ UNCHANGED <<trackingStatus, lastToast, isReconnectingRef,
                             reconnectAttempts, loops>>
    /\ UNCHANGED <<isTracking, watchId, lastUpdateSet, elapsed, trailPath,
                   totalDistance, connectionStatus, previousPositionRef,
                   reconnectTimerRef, wasTrackingBeforeBackgroundRef, watches,
                   pollInFlight, permission, hidden, geoSupported>>
    /\ Commit(probes, FALSE)

\* the poll interval fires: requestLocationUpdate issues a single-shot request
PollTick ==
    /\ pollTimer
    /\ pollInFlight < MaxPoll
    /\ pollInFlight' = pollInFlight + 1
    /\ UNCHANGED <<isTracking, trackingStatus, watchId, lastUpdateSet, elapsed,
                   reconnectAttempts, trailPath, totalDistance, error,
                   connectionStatus, previousPositionRef, isReconnectingRef,
                   reconnectTimerRef, wasTrackingBeforeBackgroundRef, lastToast,
                   watches, loops, permission, hidden, geoSupported>>
    /\ Commit(probes, FALSE)

\* success callback of a poll request
PollFix(p) ==
    /\ pollInFlight > 0
    /\ permission = "granted"
    /\ pollInFlight' = pollInFlight - 1
    /\ handleLocationUpdate(p, loops)
    /\ UNCHANGED <<isTracking, watchId, connectionStatus, reconnectTimerRef,
                   wasTrackingBeforeBackgroundRef, lastToast, watches,
                   permission, hidden, geoSupported>>
    /\ Commit(probes, TRUE)

\* error callback of a poll request: the error is only logged
PollError(code) ==
    /\ pollInFlight > 0
    /\ code = "PERMISSION_DENIED" => permission = "denied"
    /\ pollInFlight' = pollInFlight - 1
    /\ UNCHANGED <<isTracking, trackingStatus, watchId, lastUpdateSet, elapsed,
                   reconnectAttempts, trailPath, totalDistance, error,
                   connectionStatus, previousPositionRef, isReconnectingRef,
                   reconnectTimerRef, wasTrackingBeforeBackgroundRef, lastToast,
                   watches, loops, permission, hidden, geoSupported>>
    /\ Commit(probes, FALSE)

\* ---- reconnection loop ----
\* success callback of loop l's request
ReconnectSuccess(l, p) ==
    /\ loops[l].phase = "request"
    /\ permission = "granted"
    /\ updateTrail(p)
    /\ lastUpdateSet' = TRUE
    /\ elapsed' = 0
    /\ error' = "none"
    /\ isReconnectingRef' = FALSE
    /\ reconnectAttempts' = 0
    /\ trackingStatus' = "tracking"
    /\ lastToast' = "none"
    /\ loops' = clearReconnectTimer([loops EXCEPT ![l] = IdleLoop])
    /\ UNCHANGED <<isTracking, watchId, connectionStatus, reconnectTimerRef,
                   wasTrackingBeforeBackgroundRef, watches, pollInFlight,
                   permission, hidden, geoSupported>>
    /\ Commit(probes, TRUE)

\* error callback of loop l's request: the retry timer is set
ReconnectFail(l, code) ==
    /\ loops[l].phase = "request"
    /\ code = "PERMISSION_DENIED" => permission = "denied"
    /\ lastToast' = "none"
    /\ loops' = [loops EXCEPT ![l].phase = "timer"]
    /\ reconnectTimerRef' = l
    /\ UNCHANGED <<isTracking, trackingStatus, watchId, lastUpdateSet, elapsed,
                   reconnectAttempts, trailPath, totalDistance, error,
                   connectionStatus, previousPositionRef, isReconnectingRef,
                   wasTrackingBeforeBackgroundRef, watches, pollInFlight,
                   permission, hidden, geoSupported>>
    /\ Commit(probes, FALSE)

\* attemptReconnect that issues the request without counting the attempt
attemptReconnectNoCount(l) ==
    /\ loops[l].phase = "timer"
    /\ IF ~loops[l].isTracking
       THEN /\ isReconnectingRef' = FALSE
            /\ loops' = [loops EXCEPT ![l] = IdleLoop]
       ELSE /\ loops' = [loops EXCEPT ![l].phase = "request"]
            /\ UNCHANGED isReconnectingRef
    /\ UNCHANGED <<isTracking, trackingStatus, watchId, lastUpdateSet, elapsed,
                   reconnectAttempts, trailPath, totalDistance, error,
                   connectionStatus, previousPositionRef, reconnectTimerRef,
                   wasTrackingBeforeBackgroundRef, lastToast, watches,
                   pollInFlight, permission, hidden, geoSupported>>
    /\ Commit(probes, FALSE)

\* attemptReconnect that gives up after two attempts
attemptReconnectLimited(l) ==
    /\ loops[l].phase = "timer"
    /\ IF ~loops[l].isTracking \/ reconnectAttempts >= 2
       THEN /\ isReconnectingRef' = FALSE
            /\ loops' = [loops EXCEPT ![l] = IdleLoop]
            /\ UNCHANGED reconnectAttempts
       ELSE /\ reconnectAttempts < MaxAttempts
            /\ reconnectAttempts' = reconnectAttempts + 1
            /\ loops' = [loops EXCEPT ![l].phase = "request"]
            /\ UNCHANGED isReconnectingRef
    /\ UNCHANGED <<isTracking, trackingStatus, watchId, lastUpdateSet, elapsed,
                   trailPath, totalDistance, error, connectionStatus,
                   previousPositionRef, reconnectTimerRef,
                   wasTrackingBeforeBackgroundRef, lastToast, watches,
                   pollInFlight, permission, hidden, geoSupported>>
    /\ Commit(probes, FALSE)

\* loop l's retry timer fires: attemptReconnect
attemptReconnect(l) ==
    /\ loops[l].phase = "timer"
    /\ IF ~loops[l].isTracking
       THEN /\ isReconnectingRef' = FALSE
            /\ loops' = [loops EXCEPT ![l] = IdleLoop]
            /\ UNCHANGED reconnectAttempts
       ELSE /\ reconnectAttempts < MaxAttempts
            /\ reconnectAttempts' = reconnectAttempts + 1
            /\ loops' = [loops EXCEPT ![l].phase = "request"]
            /\ UNCHANGED isReconnectingRef
    /\ UNCHANGED <<isTracking, trackingStatus, watchId, lastUpdateSet, elapsed,
                   trailPath, totalDistance, error, connectionStatus,
                   previousPositionRef, reconnectTimerRef,
                   wasTrackingBeforeBackgroundRef, lastToast, watches,
                   pollInFlight, permission, hidden, geoSupported>>
    /\ Commit(probes, FALSE)

\* ---- watchdog ----
\* the GPS freshness interval fires and finds the signal stale while tracking
Watchdog ==
    /\ gpsCheckTimer
    /\ Stale
    /\ trackingStatus = "tracking"
    /\ lastToast' = "none"
    /\ startReconnection(isTracking, "paused")
    /\ UNCHANGED <<isTracking, watchId, lastUpdateSet, elapsed, trailPath,
                   totalDistance, error, connectionStatus, previousPositionRef,
                   reconnectTimerRef, wasTrackingBeforeBackgroundRef, watches,
                   pollInFlight, permission, hidden, geoSupported>>
    /\ Commit(probes, FALSE)

\* ---- permission monitoring ----
\* the permission interval fires: checkPermission starts a query
ProbeTick ==
    /\ permissionTimer
    /\ (trackingStatus = "denied") \notin probes
    /\ UNCHANGED <<isTracking, trackingStatus, watchId, lastUpdateSet, elapsed,
                   reconnectAttempts, trailPath, totalDistance, error,
                   connectionStatus, previousPositionRef, isReconnectingRef,
                   reconnectTimerRef, wasTrackingBeforeBackgroundRef, lastToast,
                   watches, pollInFlight, loops, permission, hidden, geoSupported>>
    /\ Commit(probes \cup {trackingStatus = "denied"}, FALSE)

\* checkPermission that sets the status on a restored permission but starts
\* no reconnection
checkPermissionNoLoop(wasDenied) ==
    /\ wasDenied \in probes
    /\ IF permission = "denied" /\ ~wasDenied
       THEN /\ trackingStatus' = "denied"
            /\ \E shown \in BOOLEAN :
                 lastToast' = IF shown THEN RetryToast(TRUE) ELSE lastToast
            /\ UNCHANGED <<isReconnectingRef, reconnectAttempts, loops>>
       ELSE IF permission = "granted" /\ wasDenied
       THEN /\ lastToast' = "none"
            /\ trackingStatus' = "reconnecting"
            /\ UNCHANGED <<isReconnectingRef, reconnectAttempts, loops>>
       ELSE UNCHANGED <<trackingStatus, lastToast, isReconnectingRef,
                        reconnectAttempts, loops>>
    /\ UNCHANGED <<isTracking, watchId, lastUpdateSet, elapsed, trailPath,
                   totalDistance, error, connectionStatus, previousPositionRef,
                   reconnectTimerRef, wasTrackingBeforeBackgroundRef, watches,
                   pollInFlight, permission, hidden, geoSupported>>
    /\ Commit(probes \ {wasDenied}, FALSE)

\* a query resolves: the rest of checkPermission, whose closure captured a
\* trackingStatus that is 'denied' (wasDenied) or not; checkPermission
\* exists only in renders with isTracking, so do the startTracking and
\* startReconnection it calls
checkPermission(wasDenied) ==
    /\ wasDenied \in probes
    /\ IF permission = "denied" /\ ~wasDenied
       THEN /\ trackingStatus' = "denied"
            /\ \E shown \in BOOLEAN :
                 lastToast' = IF shown THEN RetryToast(TRUE) ELSE lastToast
            /\ UNCHANGED <<isReconnectingRef, reconnectAttempts, loops>>
       ELSE IF permission = "granted" /\ wasDenied
       THEN /\ lastToast' = "none"
            /\ startReconnection(TRUE, "reconnecting")
       ELSE UNCHANGED <<trackingStatus, lastToast, isReconnectingRef,
                        reconnectAttempts, loops>>
    /\ UNCHANGED <<isTracking, watchId, lastUpdateSet, elapsed, trailPath,
                   totalDistance, error, connectionStatus, previousPositionRef,
                   reconnectTimerRef, wasTrackingBeforeBackgroundRef, watches,
                   pollInFlight, permission, hidden, geoSupported>>
    /\ Commit(probes \ {wasDenied}, FALSE)

\* ---- connectivity and visibility ----
handleOnline ==
    /\ connectionStatus = "offline"
    /\ connectionStatus' = "online"
    /\ startReconnection(isTracking, trackingStatus)
    /\ UNCHANGED <<isTracking, watchId, lastUpdateSet, elapsed, trailPath,
                   totalDistance, error, previousPositionRef, reconnectTimerRef,
                   wasTrackingBeforeBackgroundRef, lastToast, watches,
                   pollInFlight, permission, hidden, geoSupported>>
    /\ Commit(probes, FALSE)

handleOffline ==
    /\ connectionStatus = "online"
    /\ connectionStatus' = "offline"
    /\ UNCHANGED <<isTracking, trackingStatus, watchId, lastUpdateSet, elapsed,
                   reconnectAttempts, trailPath, totalDistance, error,
                   previousPositionRef, isReconnectingRef, reconnectTimerRef,
                   wasTrackingBeforeBackgroundRef, lastToast, watches,
                   pollInFlight, loops, permission, hidden, geoSupported>>
    /\ Commit(probes, FALSE)

\* handleVisibilityChange with document.hidden true
VisibilityHidden ==
    /\ ~hidden
    /\ hidden' = TRUE
    /\ wasTrackingBeforeBackgroundRef' = isTracking
    /\ UNCHANGED <<isTracking, trackingStatus, watchId, lastUpdateSet, elapsed,
                   reconnectAttempts, trailPath, totalDistance, error,
                   connectionStatus, previousPositionRef, isReconnectingRef,
                   reconnectTimerRef, lastToast, watches, pollInFlight, loops,
                   permission, geoSupported>>
    /\ Commit(probes, FALSE)

\* handleVisibilityChange with document.hidden false
VisibilityShown ==
    /\ hidden
    /\ hidden' = FALSE
    /\ IF wasTrackingBeforeBackgroundRef /\ isTracking /\ lastUpdateSet /\ Stale
       THEN startReconnection(isTracking, trackingStatus)
       ELSE UNCHANGED <<trackingStatus, isReconnectingRef, reconnectAttempts, loops>>
    /\ UNCHANGED <<isTracking, watchId, lastUpdateSet, elapsed, trailPath,
                   totalDistance, error, connectionStatus, previousPositionRef,
                   reconnectTimerRef, wasTrackingBeforeBackgroundRef, lastToast,
                   watches, pollInFlight, permission, geoSupported>>
    /\ Commit(probes, FALSE)

\* ---- platform ----
\* the user or the platform changes the geolocation permission
PermissionChange(v) ==
    /\ v # permission
    /\ permission' = v
    /\ UNCHANGED <<isTracking, trackingStatus, watchId, lastUpdateSet, elapsed,
                   reconnectAttempts, trailPath, totalDistance, error,
                   connectionStatus, previousPositionRef, isReconnectingRef,
                   reconnectTimerRef, wasTrackingBeforeBackgroundRef, lastToast,
                   watches, pollInFlight, loops, hidden, geoSupported>>
    /\ Commit(probes, FALSE)

\* TickMs pass without an accepted fix
Tick ==
    /\ lastUpdateSet
    /\ elapsed < MaxElapsed
    /\ elapsed' = elapsed + 1
    /\ UNCHANGED <<isTracking, trackingStatus, watchId, lastUpdateSet,
                   reconnectAttempts, trailPath, totalDistance, error,
                   connectionStatus, previousPositionRef, isReconnectingRef,
                   reconnectTimerRef, wasTrackingBeforeBackgroundRef, lastToast,
                   watches, pollInFlight, loops, permission, hidden, geoSupported>>
    /\ Commit(probes, FALSE)

\* the handlers of the recovery machinery: subscription, watchdog,
\* reconnection loop
Recovery ==
    \/ StartTracking
    \/ StopTracking
    \/ \E w \in WatchIds, p \in SessionPositions : WatchFix(w, p)
    \/ \E w \in WatchIds, code \in ErrorCodes : handleLocationError(w, code)
    \/ \E l \in LoopIds, p \in SessionPositions : ReconnectSuccess(l, p)
    \/ \E l \in LoopIds, code \in ErrorCodes : ReconnectFail(l, code)
    \/ \E l \in LoopIds : attemptReconnect(l)
    \/ Watchdog
    \/ Tick

\* the session: recovery, the periodic poll and permission monitoring
Next ==
    \/ Recovery
    \/ RetryFromToast
    \/ PollTick
    \/ \E p \in SessionPositions : PollFix(p)
    \/ \E code \in ErrorCodes : PollError(code)
    \/ ProbeTick
    \/ \E wasDenied \in BOOLEAN : checkPermission(wasDenied)
    \/ \E v \in PermissionStates : PermissionChange(v)

Spec == Init /\ [][Next]_vars

NextRecovery == Recovery

SpecRecovery == InitRecovery /\ [][NextRecovery]_vars

\* the session with connectivity and visibility events
NextEvents ==
    \/ Recovery
    \/ handleOnline
    \/ handleOffline
    \/ VisibilityHidden
    \/ VisibilityShown

SpecEvents == InitEvents /\ [][NextEvents]_vars

\* fixes at several places, trail reset, stop and restart
NextTrail ==
    \/ StartTracking
    \/ StopTracking
    \/ resetTrail
    \/ \E w \in WatchIds, p \in Positions : WatchFix(w, p)
    \/ PollTick
    \/ \E p \in Positions : PollFix(p)

SpecTrail == InitTrail /\ [][NextTrail]_vars

TypeOK ==
    /\ isTracking \in BOOLEAN
    /\ trackingStatus \in TrackingStatus
    /\ watchId \in WatchIds \cup {NoId}
    /\ elapsed \in 0..MaxElapsed
    /\ reconnectAttempts \in 0..MaxAttempts
    /\ Len(trailPath) <= MaxTrail
    /\ pollInFlight \in 0..MaxPoll
    /\ probes \subseteq BOOLEAN

\* ---- map view: zoom and gestures (part_006) ----
Min(a, b) == IF a < b THEN a ELSE b
Max(a, b) == IF a > b THEN a ELSE b

\* Math.max(MIN_ZOOM, Math.min(MAX_ZOOM, z)), z in zoom steps
ClampZoom(z) == Max(MIN_ZOOM * ZoomUnit, Min(MAX_ZOOM * ZoomUnit, z))

\* the remainder operator of the language: the sign of the dividend
JsRem(a, b) == IF a >= 0 THEN a % b ELSE 0 - ((0 - a) % b)

\* getMapCenter that never uses the manual center
getMapCenterFollowsOnly == location

getMapCenter ==
    IF ~isAutoFollow /\ manualCenter # NoCenter THEN manualCenter ELSE location

\* a zoom-in button that also drops the manual center
handleZoomInSnaps ==
    /\ zoom < MAX_ZOOM * ZoomUnit
    /\ zoom' = Min(zoom + ZoomUnit, MAX_ZOOM * ZoomUnit)
    /\ manualCenter' = NoCenter
    /\ UNCHANGED <<isAutoFollow, isDeviceInfoOpen, location,
                   isDraggingRef, dragStartRef, isPinchingRef, lastPinchDistanceRef,
                   pinchCenterZoomRef, touches, pinchStartDistance>>
    /\ UNCHANGED <<appVars, tileVars, renderVars, geoVars>>

\* the zoom-in button (disabled at MAX_ZOOM)
handleZoomIn ==
    /\ zoom < MAX_ZOOM * ZoomUnit
    /\ zoom' = Min(zoom + ZoomUnit, MAX_ZOOM * ZoomUnit)
    /\ UNCHANGED <<isAutoFollow, manualCenter, isDeviceInfoOpen, location,
                   isDraggingRef, dragStartRef, isPinchingRef, lastPinchDistanceRef,
                   pinchCenterZoomRef, touches, pinchStartDistance>>
    /\ UNCHANGED <<appVars, tileVars, renderVars, geoVars>>

\* the zoom-out button (disabled at MIN_ZOOM)
handleZoomOut ==
    /\ zoom > MIN_ZOOM * ZoomUnit
    /\ zoom' = Max(zoom - ZoomUnit, MIN_ZOOM * ZoomUnit)
    /\ UNCHANGED <<isAutoFollow, manualCenter, isDeviceInfoOpen, location,
                   isDraggingRef, dragStartRef, isPinchingRef, lastPinchDistanceRef,
                   pinchCenterZoomRef, touches, pinchStartDistance>>
    /\ UNCHANGED <<appVars, tileVars, renderVars, geoVars>>

\* a wheel event; delta is 1 (deltaY <= 0) or -1 (deltaY > 0)
handleWheel(delta) ==
    /\ zoom' = ClampZoom(zoom + delta * ZoomUnit)
    /\ UNCHANGED <<isAutoFollow, manualCenter, isDeviceInfoOpen, location,
                   isDraggingRef, dragStartRef, isPinchingRef, lastPinchDistanceRef,
                   pinchCenterZoomRef, touches, pinchStartDistance>>
    /\ UNCHANGED <<appVars, tileVars, renderVars, geoVars>>

\* touchstart with n touch points on the canvas, d pixels apart when n = 2;
\* near: the single touch lands within MARKER_CLICK_RADIUS of the marker
handleTouchStart(n, d, near) ==
    /\ touches < n
    /\ touches' = n
    /\ IF n = 2
       THEN /\ isPinchingRef' = TRUE
            /\ lastPinchDistanceRef' = d
            /\ pinchCenterZoomRef' = zoom
            /\ pinchStartDistance' = d
            /\ isDraggingRef' = FALSE
            /\ dragStartRef' = NoCenter
            /\ UNCHANGED isDeviceInfoOpen
       ELSE /\ UNCHANGED <<isPinchingRef, lastPinchDistanceRef, pinchCenterZoomRef,
                           pinchStartDistance>>
            /\ IF location # NoCenter /\ near
               THEN /\ isDeviceInfoOpen' = TRUE
                    /\ UNCHANGED <<isDraggingRef, dragStartRef>>
               ELSE IF getMapCenter = NoCenter
               THEN UNCHANGED <<isDeviceInfoOpen, isDraggingRef, dragStartRef>>
               ELSE /\ isDraggingRef' = TRUE
                    /\ dragStartRef' = getMapCenter
                    /\ UNCHANGED isDeviceInfoOpen
    /\ UNCHANGED <<zoom, isAutoFollow, manualCenter, location>>
    /\ UNCHANGED <<appVars, tileVars, renderVars, geoVars>>

\* handleTouchMove that applies the zoom change without clamping it
handleTouchMoveUnclamped(d, dLat, dLon) ==
    /\ touches > 0
    /\ IF touches = 2 /\ isPinchingRef
       THEN IF lastPinchDistanceRef = NoDistance
            THEN UNCHANGED <<zoom, lastPinchDistanceRef, manualCenter, isAutoFollow>>
            ELSE /\ zoom' = pinchCenterZoomRef + (d - lastPinchDistanceRef)
                 /\ lastPinchDistanceRef' = d
                 /\ UNCHANGED <<manualCenter, isAutoFollow>>
       ELSE IF touches = 1 /\ isDraggingRef /\ dragStartRef # NoCenter
       THEN /\ manualCenter' =
                 [lat |-> Max(0 - 85, Min(85, dragStartRef.lat + dLat)),
                  lon |-> JsRem(dragStartRef.lon + dLon + 180, 360) - 180]
            /\ isAutoFollow' = FALSE
            /\ UNCHANGED <<zoom, lastPinchDistanceRef>>
       ELSE UNCHANGED <<zoom, lastPinchDistanceRef, manualCenter, isAutoFollow>>
    /\ UNCHANGED <<isDeviceInfoOpen, location, isDraggingRef, dragStartRef,
                   isPinchingRef, pinchCenterZoomRef, touches, pinchStartDistance>>
    /\ UNCHANGED <<appVars, tileVars, renderVars, geoVars>>

\* touchmove: the touch points are d pixels apart (two touches), or the
\* single touch has moved by what is dLat, dLon degrees at the current zoom
handleTouchMove(d, dLat, dLon) ==
    /\ touches > 0
    /\ IF touches = 2 /\ isPinchingRef
       THEN IF lastPinchDistanceRef = NoDistance
            THEN UNCHANGED <<zoom, lastPinchDistanceRef, manualCenter, isAutoFollow>>
            ELSE /\ zoom' = ClampZoom(pinchCenterZoomRef + (d - lastPinchDistanceRef))
                 /\ lastPinchDistanceRef' = d
                 /\ UNCHANGED <<manualCenter, isAutoFollow>>
       ELSE IF touches = 1 /\ isDraggingRef /\ dragStartRef # NoCenter
       THEN /\ manualCenter' =
                 [lat |-> Max(0 - 85, Min(85, dragStartRef.lat + dLat)),
                  lon |-> JsRem(dragStartRef.lon + dLon + 180, 360) - 180]
            /\ isAutoFollow' = FALSE
            /\ UNCHANGED <<zoom, lastPinchDistanceRef>>
       ELSE UNCHANGED <<zoom, lastPinchDistanceRef, manualCenter, isAutoFollow>>
    /\ UNCHANGED <<isDeviceInfoOpen, location, isDraggingRef, dragStartRef,
                   isPinchingRef, pinchCenterZoomRef, touches, pinchStartDistance>>
    /\ UNCHANGED <<appVars, tileVars, renderVars, geoVars>>

\* touchend: a touch point leaves the canvas
handleTouchEnd ==
    /\ touches > 0
    /\ touches' = touches - 1
    /\ isPinchingRef' = FALSE
    /\ lastPinchDistanceRef' = NoDistance
    /\ isDraggingRef' = FALSE
    /\ dragStartRef' = NoCenter
    /\ UNCHANGED <<zoom, isAutoFollow, manualCenter, isDeviceInfoOpen, location,
                   pinchCenterZoomRef, pinchStartDistance>>
    /\ UNCHANGED <<appVars, tileVars, renderVars, geoVars>>

\* the zoom drawMap passes to latLonToTile and loadTile for a frame drawn in
\* the current state, in zoom steps
drawMapTileZoom == zoom

\* zoom buttons, wheel and two-finger pinch
NextPinch ==
    \/ handleZoomIn
    \/ handleZoomOut
    \/ \E delta \in {0 - 1, 1} : handleWheel(delta)
    \/ \E d \in TouchDistances : handleTouchStart(2, d, FALSE)
    \/ \E d \in TouchDistances : handleTouchMove(d, 0, 0)
    \/ handleTouchEnd

SpecPinch == InitRecovery /\ [][NextPinch]_vars

\* ---- map view: tiles and frames (part_006) ----
RECURSIVE Pow2(_)
Pow2(n) == IF n = 0 THEN 1 ELSE 2 * Pow2(n - 1)

\* the parent passes a new tracked position
LocationProp(c) ==
    /\ location # c
    /\ location' = c
    /\ UNCHANGED <<zoom, isAutoFollow, manualCenter, isDeviceInfoOpen,
                   isDraggingRef, dragStartRef, isPinchingRef, lastPinchDistanceRef,
                   pinchCenterZoomRef, touches, pinchStartDistance>>
    /\ UNCHANGED <<appVars, tileVars, renderVars, geoVars>>

\* loadTile that does not look into the cache
loadTileNoCache(f, t, attempt, provider, old) ==
    [phase |-> "fetching", attempt |-> attempt,
     fetches |-> old.fetches + 1, delay |-> 0]

\* loadTile(x, y, z, scale, attempt) of the closure frame f holds, up to the
\* assignment of img.src: a cached key resolves at once
loadTile(f, t, attempt, provider, old) ==
    IF <<provider, t>> \in tileCache
    THEN [old EXCEPT !.phase = "resolved", !.attempt = attempt, !.delay = 0]
    ELSE [phase |-> "fetching", attempt |-> attempt,
          fetches |-> old.fetches + 1, delay |-> 0]

\* the handlers drawMap attaches to a tile promise: a resolved tile is drawn
\* as its image, a rejected one as a placeholder; old: what the canvas shows
drawTile(load, old) ==
    IF load.phase = "resolved" THEN "image"
    ELSE IF load.phase = "rejected" THEN "placeholder"
    ELSE old

\* drawMap that starts a frame whether or not one is being drawn
drawMapUnguarded(f) ==
    /\ ~frames[f].active
    /\ IF getMapCenter = NoCenter
       THEN /\ drawn' = ClearedCanvas
            /\ UNCHANGED <<isDrawingRef, frames, tileLoads>>
       ELSE /\ isDrawingRef' = TRUE
            /\ frames' = [frames EXCEPT ![f] =
                 [active |-> TRUE, provider |-> currentProvider,
                  attempts |-> providerFallbackAttempts]]
            /\ tileLoads' = [tileLoads EXCEPT ![f] =
                 [t \in Tiles |-> loadTile(f, t, 0, currentProvider, IdleLoad)]]
            /\ drawn' = [tiles |-> [t \in Tiles |->
                             drawTile(tileLoads'[f][t], "none")],
                         overlays |-> FALSE]
    /\ UNCHANGED <<currentProvider, providerFallbackAttempts, tileCache,
                   exhaustedSinceSuccess>>
    /\ UNCHANGED <<appVars, gestureVars, renderVars, geoVars>>

\* the animation frame callback runs drawMap of the last render; f is the
\* frame the call becomes.  A call that finds isDrawingRef set returns.
\* (lastDrawTimeRef only guards a return the isDrawingRef test makes anyway.)
drawMap(f) ==
    /\ ~frames[f].active
    /\ IF isDrawingRef
       THEN UNCHANGED <<isDrawingRef, frames, tileLoads, drawn>>
       ELSE IF getMapCenter = NoCenter
       THEN /\ drawn' = ClearedCanvas
            /\ UNCHANGED <<isDrawingRef, frames, tileLoads>>
       ELSE /\ isDrawingRef' = TRUE
            /\ frames' = [frames EXCEPT ![f] =
                 [active |-> TRUE, provider |-> currentProvider,
                  attempts |-> providerFallbackAttempts]]
            /\ tileLoads' = [tileLoads EXCEPT ![f] =
                 [t \in Tiles |-> loadTile(f, t, 0, currentProvider, IdleLoad)]]
            /\ drawn' = [tiles |-> [t \in Tiles |->
                             drawTile(tileLoads'[f][t], "none")],
                         overlays |-> FALSE]
    /\ UNCHANGED <<currentProvider, providerFallbackAttempts, tileCache,
                   exhaustedSinceSuccess>>
    /\ UNCHANGED <<appVars, gestureVars, renderVars, geoVars>>

\* img.onload of tile t of frame f
TileLoaded(f, t) ==
    /\ frames[f].active
    /\ tileLoads[f][t].phase = "fetching"
    /\ tileCache' = tileCache \cup {<<frames[f].provider, t>>}
    /\ providerFallbackAttempts' =
         [providerFallbackAttempts EXCEPT ![frames[f].provider] = 0]
    /\ exhaustedSinceSuccess' =
         [exhaustedSinceSuccess EXCEPT ![frames[f].provider] = 0]
    /\ tileLoads' = [tileLoads EXCEPT ![f][t].phase = "resolved"]
    /\ drawn' = [drawn EXCEPT !.tiles[t] = drawTile(tileLoads'[f][t], @)]
    /\ UNCHANGED <<currentProvider, isDrawingRef, frames>>
    /\ UNCHANGED <<appVars, gestureVars, renderVars, geoVars>>

\* img.onerror that leaves the first provider for the last one
TileErrorSkips(f, t) ==
    /\ frames[f].active
    /\ tileLoads[f][t].phase = "fetching"
    /\ LET cur == frames[f].provider
           attempt == tileLoads[f][t].attempt
           newAttempts == [frames[f].attempts EXCEPT ![cur] = @ + 1]
       IN IF attempt < MAX_RETRY_ATTEMPTS
          THEN /\ tileLoads' = [tileLoads EXCEPT ![f][t].phase = "waiting",
                                   ![f][t].delay = RETRY_DELAY * Pow2(attempt)]
               /\ UNCHANGED <<currentProvider, providerFallbackAttempts,
                              exhaustedSinceSuccess>>
          ELSE /\ exhaustedSinceSuccess[cur] < MaxFailures
               /\ providerFallbackAttempts' = newAttempts
               /\ exhaustedSinceSuccess' =
                    [exhaustedSinceSuccess EXCEPT ![cur] = @ + 1]
               /\ currentProvider' =
                    IF cur = "esri" /\ newAttempts["esri"] >= FailoverThreshold
                    THEN "osm"
                    ELSE IF cur = "google" /\ newAttempts["google"] >= FailoverThreshold
                    THEN "osm"
                    ELSE currentProvider
               /\ tileLoads' = [tileLoads EXCEPT ![f][t].phase = "rejected"]
    /\ drawn' = [drawn EXCEPT !.tiles[t] = drawTile(tileLoads'[f][t], @)]
    /\ UNCHANGED <<tileCache, isDrawingRef, frames>>
    /\ UNCHANGED <<appVars, gestureVars, renderVars, geoVars>>

\* img.onerror of tile t of frame f
TileError(f, t) ==
    /\ frames[f].active
    /\ tileLoads[f][t].phase = "fetching"
    /\ LET cur == frames[f].provider
           attempt == tileLoads[f][t].attempt
           newAttempts == [frames[f].attempts EXCEPT ![cur] = @ + 1]
       IN IF attempt < MAX_RETRY_ATTEMPTS
          THEN /\ tileLoads' = [tileLoads EXCEPT ![f][t].phase = "waiting",
                                   ![f][t].delay = RETRY_DELAY * Pow2(attempt)]
               /\ UNCHANGED <<currentProvider, providerFallbackAttempts,
                              exhaustedSinceSuccess>>
          ELSE /\ exhaustedSinceSuccess[cur] < MaxFailures
               /\ providerFallbackAttempts' = newAttempts
               /\ exhaustedSinceSuccess' =
                    [exhaustedSinceSuccess EXCEPT ![cur] = @ + 1]
               /\ currentProvider' =
                    IF cur = "esri" /\ newAttempts["esri"] >= FailoverThreshold
                    THEN "google"
                    ELSE IF cur = "google" /\ newAttempts["google"] >= FailoverThreshold
                    THEN "osm"
                    ELSE currentProvider
               /\ tileLoads' = [tileLoads EXCEPT ![f][t].phase = "rejected"]
    /\ drawn' = [drawn EXCEPT !.tiles[t] = drawTile(tileLoads'[f][t], @)]
    /\ UNCHANGED <<tileCache, isDrawingRef, frames>>
    /\ UNCHANGED <<appVars, gestureVars, renderVars, geoVars>>

\* the retry timer of tile t of frame f fires: loadTile(.., attempt + 1)
RetryTimer(f, t) ==
    /\ frames[f].active
    /\ tileLoads[f][t].phase = "waiting"
    /\ tileLoads' = [tileLoads EXCEPT ![f][t] =
         loadTile(f, t, tileLoads[f][t].attempt + 1, frames[f].provider,
                  tileLoads[f][t])]
    /\ drawn' = [drawn EXCEPT !.tiles[t] = drawTile(tileLoads'[f][t], @)]
    /\ UNCHANGED <<currentProvider, providerFallbackAttempts, tileCache,
                   isDrawingRef, frames, exhaustedSinceSuccess>>
    /\ UNCHANGED <<appVars, gestureVars, renderVars, geoVars>>

\* FrameDone for tile promises without a catch handler: one rejected tile
\* rejects Promise.all and the overlays are not drawn
FrameDoneRejects(f) ==
    /\ frames[f].active
    /\ \A t \in Tiles : tileLoads[f][t].phase \in {"resolved", "rejected"}
    /\ isDrawingRef' = FALSE
    /\ frames' = [frames EXCEPT ![f] = IdleFrame]
    /\ tileLoads' = [tileLoads EXCEPT ![f] = [t \in Tiles |-> IdleLoad]]
    /\ drawn' = [drawn EXCEPT !.overlays =
                   \A t \in Tiles : tileLoads[f][t].phase = "resolved"]
    /\ UNCHANGED <<currentProvider, providerFallbackAttempts, tileCache,
                   exhaustedSinceSuccess>>
    /\ UNCHANGED <<appVars, gestureVars, renderVars, geoVars>>

\* Promise.all(tilesToLoad) of frame f settles: overlays are drawn
FrameDone(f) ==
    /\ frames[f].active
    /\ \A t \in Tiles : tileLoads[f][t].phase \in {"resolved", "rejected"}
    /\ isDrawingRef' = FALSE
    /\ frames' = [frames EXCEPT ![f] = IdleFrame]
    /\ tileLoads' = [tileLoads EXCEPT ![f] = [t \in Tiles |-> IdleLoad]]
    /\ drawn' = [drawn EXCEPT !.overlays = TRUE]
    /\ UNCHANGED <<currentProvider, providerFallbackAttempts, tileCache,
                   exhaustedSinceSuccess>>
    /\ UNCHANGED <<appVars, gestureVars, renderVars, geoVars>>

\* frames whose tiles are being composed
FramesInFlight == {f \in FrameIds : frames[f].active}

NextTiles ==
    \/ LocationProp([lat |-> 0, lon |-> 0])
    \/ \E f \in FrameIds : drawMap(f)
    \/ \E f \in FrameIds, t \in Tiles : TileLoaded(f, t)
    \/ \E f \in FrameIds, t \in Tiles : TileError(f, t)
    \/ \E f \in FrameIds, t \in Tiles : RetryTimer(f, t)
    \/ \E f \in FrameIds : FrameDone(f)

SpecTiles == InitRecovery /\ [][NextTiles]_vars

\* ---- map view on a tile grid (part_005), one axis ----
\* places the view is centred on, container widths, and points of the trail
RenderCenters == {DEFAULT_CENTER + 100 * k : k \in 0..MaxShift}
RenderWidths == {DefaultWidth - 200, DefaultWidth, DefaultWidth + 200}
RenderPoints == RenderCenters \cup {c - 60 : c \in RenderCenters}

\* Math.ceil(a / b) for positive integers
CeilDiv(a, b) == (a + b - 1) \div b

\* the frame the animation frame callback draws for center cx (world pixels
\* at the tile zoom, so latLonToTile(..).x is cx / TILE_SIZE) and width w
renderFrame(cx, w) ==
    LET tilesX == CeilDiv(w, TILE_SIZE) + 2
        \* Math.floor(centerTile.x - tilesX / 2)
        startTileX == (2 * cx - TILE_SIZE * tilesX) \div (2 * TILE_SIZE)
        \* width / 2 - (centerTile.x - Math.floor(centerTile.x)) * TILE_SIZE
        offsetX == (w \div 2) - (cx % TILE_SIZE)
        maxTile == Pow2(RenderZoom)
        visible == {tileX \in startTileX..(startTileX + tilesX - 1) :
                     tileX >= 0 /\ tileX < maxTile}
    IN [tiles |-> [tileX \in visible |-> offsetX + (tileX - startTileX) * TILE_SIZE],
        overlay |-> [p \in RenderPoints |-> (w \div 2) + (p - cx)]]

\* the drawing effect runs again after a state change: the cleanup of the
\* last run cancels its animation frame, the canvas is resized (cleared)
\* and render() is called
renderEffect ==
    /\ canvas' = BlankCanvas
    /\ animationFrameRef' = ~pendingRenderRef
    /\ pendingRenderRef' = TRUE

\* setCenter from the follow effect, a drag or the recenter button
setCenter(c) ==
    /\ center' = c
    /\ renderEffect
    /\ UNCHANGED dimensions
    /\ UNCHANGED <<appVars, gestureVars, tileVars, geoVars>>

\* the resize observer reports width w
setDimensions(w) ==
    /\ Abs(dimensions - w) > 5
    /\ dimensions' = w
    /\ renderEffect
    /\ UNCHANGED center
    /\ UNCHANGED <<appVars, gestureVars, tileVars, geoVars>>

\* render() called by the timer a tile's onload started
render ==
    /\ canvas # BlankCanvas
    /\ IF pendingRenderRef
       THEN UNCHANGED <<pendingRenderRef, animationFrameRef>>
       ELSE /\ pendingRenderRef' = TRUE
            /\ animationFrameRef' = TRUE
    /\ UNCHANGED <<center, dimensions, canvas>>
    /\ UNCHANGED <<appVars, gestureVars, tileVars, geoVars>>

\* the animation frame callback of render()
animationFrame ==
    /\ animationFrameRef
    /\ animationFrameRef' = FALSE
    /\ pendingRenderRef' = FALSE
    /\ canvas' = renderFrame(center, dimensions)
    /\ UNCHANGED <<center, dimensions>>
    /\ UNCHANGED <<appVars, gestureVars, tileVars, geoVars>>

\* where the frame on the canvas shows world pixel p: through the tile that
\* contains it, and through the projection used for trail and marker
ScreenViaTile(p) == canvas.tiles[p \div TILE_SIZE] + (p % TILE_SIZE)
ScreenViaOverlay(p) == canvas.overlay[p]

NextRender ==
    \/ \E c \in RenderCenters : setCenter(c)
    \/ \E w \in RenderWidths : setDimensions(w)
    \/ render
    \/ animationFrame

SpecRender == InitRecovery /\ [][NextRender]_vars

\* ---- map view: world-pixel projection (part_006) ----
\* x of latLonToWorldPixel(lat, lon, z) for a whole zoom level z, in units of
\* 1/45 pixel: ((lon + 180) / 360) * TILE_SIZE * 2^z, exact for whole degrees
PixelFraction == 45

\* latLonToWorldPixel whose x is rounded down to a whole pixel
latLonToWorldPixelXFloored(lon, z) ==
    ((((lon + 180) * (TILE_SIZE * Pow2(z))) \div 8) \div PixelFraction) * PixelFraction

latLonToWorldPixelX(lon, z) ==
    ((lon + 180) * (TILE_SIZE * Pow2(z))) \div 8

\* points of the trail the parent passes, in whole degrees
OverlayPoints == {[lat |-> 0, lon |-> l] : l \in {0 - 77, 1, 100}}

\* where a frame drawn in the current state puts trail point p, as the x
\* offset from the viewport center: pointWorld.x - centerWorld.x
overlayOffsetX(p) ==
    latLonToWorldPixelX(p.lon, zoom \div ZoomUnit)
      - latLonToWorldPixelX(getMapCenter.lon, zoom \div ZoomUnit)

\* ---- map view: follow mode, drag and recenter (part_006) ----
\* tracked positions the parent passes, in whole degrees
MapCenters == {[lat |-> 0, lon |-> DragStep * (k - 1)] : k \in 1..MaxPlaces}

\* handleRecenter that drops the manual center without re-engaging follow mode
handleRecenterNoFollow ==
    /\ IF location # NoCenter
       THEN /\ manualCenter' = NoCenter
            /\ UNCHANGED isAutoFollow
       ELSE UNCHANGED <<isAutoFollow, manualCenter>>
    /\ UNCHANGED <<zoom, isDeviceInfoOpen, location, isDraggingRef, dragStartRef,
                   isPinchingRef, lastPinchDistanceRef, pinchCenterZoomRef, touches,
                   pinchStartDistance>>
    /\ UNCHANGED <<appVars, tileVars, renderVars, geoVars>>

\* the recenter button
handleRecenter ==
    /\ IF location # NoCenter
       THEN /\ isAutoFollow' = TRUE
            /\ manualCenter' = NoCenter
       ELSE UNCHANGED <<isAutoFollow, manualCenter>>
    /\ UNCHANGED <<zoom, isDeviceInfoOpen, location, isDraggingRef, dragStartRef,
                   isPinchingRef, lastPinchDistanceRef, pinchCenterZoomRef, touches,
                   pinchStartDistance>>
    /\ UNCHANGED <<appVars, tileVars, renderVars, geoVars>>

\* a touchmove of a one-finger drag along the longitude
DragMove == \E dLon \in {0 - DragStep, DragStep} : handleTouchMove(0, 0, dLon)

\* a zoom operation: buttons, wheel, or a touchmove of a pinch
ZoomOperation ==
    \/ handleZoomIn
    \/ handleZoomOut
    \/ \E delta \in {0 - 1, 1} : handleWheel(delta)
    \/ \E d \in TouchDistances : touches = 2 /\ isPinchingRef /\ handleTouchMove(d, 0, 0)

\* the view with a tracked position: zoom, pinch, drag, recenter
NextFollow ==
    \/ \E c \in MapCenters : LocationProp(c)
    \/ handleRecenter
    \/ handleZoomIn
    \/ handleZoomOut
    \/ \E delta \in {0 - 1, 1} : handleWheel(delta)
    \/ \E near \in BOOLEAN : handleTouchStart(1, 0, near)
    \/ \E d \in TouchDistances : handleTouchStart(2, d, FALSE)
    \/ \E d \in TouchDistances : touches = 2 /\ handleTouchMove(d, 0, 0)
    \/ touches = 1 /\ DragMove
    \/ handleTouchEnd

SpecFollow == InitRecovery /\ [][NextFollow]_vars

\* ---- the tiles a frame requests (part_006 drawMap), x axis ----
\* canvas.getBoundingClientRect().width
CanvasWidth == 800

\* latLonToTile(lat, lon, z).x for a whole zoom level z
latLonToTileX(lon, z) == ((lon + 180) * Pow2(z)) \div 360

\* the tileX values the tile loop of drawMap passes to loadTile for a frame
\* drawn in the current state at the whole zoom level z
drawMapTilesX(z) ==
    LET tilesX == CeilDiv(CanvasWidth, TILE_SIZE) + 2
        startTileX == latLonToTileX(getMapCenter.lon, z) - (tilesX \div 2)
    IN {startTileX + tx : tx \in 0..(tilesX - 1)}

\* ---- the geographic helpers (part_001, part_002, part_006) ----
\* Fixed point: a cosine is a number of quarters, a Mercator fraction a number
\* of 1/1024 of the world height, a tile x a number of 1/45 tile, a quotient
\* of two floats a fraction in lowest terms.
earthCircumference == 40075017
CosScale == 4
MercatorScale == 1024
\* the world pixel x of a zoom above MaxPixelZoom + 1 does not fit the integers
MaxPixelZoom == 13

GeoLatitudes == {0 - 84, 0 - 60, 0 - 30, 0, 30, 60, 84}
GeoLongitudes == {0 - 180, 0 - 77, 0, 1, 100, 179}
GeoZooms == MIN_ZOOM..MAX_ZOOM

\* Math.cos(latitude * Math.PI / 180), in quarters
cos(latitude) ==
    CASE Abs(latitude) = 0 -> 4
      [] Abs(latitude) = 30 -> 3
      [] Abs(latitude) = 60 -> 2
      [] OTHER -> 0

\* (1 - Math.log(Math.tan(latRad) + 1 / Math.cos(latRad)) / Math.PI) / 2,
\* equally 0.5 - Math.log(Math.tan(Math.PI / 4 + latRad / 2)) / (2 * Math.PI)
mercatorY(lat) ==
    LET north == CASE Abs(lat) = 0 -> 512
                   [] Abs(lat) = 30 -> 422
                   [] Abs(lat) = 60 -> 297
                   [] OTHER -> 31
    IN IF lat <= 0 THEN MercatorScale - north ELSE north

\* Math.atan(Math.sinh(...)) and 2 * Math.atan(Math.exp(...)) - Math.PI / 2:
\* the latitude whose Mercator fraction is nearest to f
inverseMercatorY(f) ==
    CHOOSE lat \in GeoLatitudes :
        \A other \in GeoLatitudes : Abs(mercatorY(lat) - f) <= Abs(mercatorY(other) - f)

\* a / b of two floats, b positive
RECURSIVE GCD(_, _)
GCD(a, b) == IF b = 0 THEN a ELSE GCD(b, a % b)
Ratio(a, b) ==
    LET g == GCD(Abs(a), b) IN
    [kind |-> "ratio", num |-> a \div g, den |-> b \div g]

\* q / 2
Half(q) == Ratio(q.num, 2 * q.den)

\* metersPerPixel that returns whole metres
metersPerPixelWholeMetres(latitude, z) ==
    Ratio((earthCircumference * cos(latitude)) \div (CosScale * TILE_SIZE * Pow2(z)), 1)

\* part_002 metersPerPixel
metersPerPixel(latitude, z) ==
    Ratio(earthCircumference * cos(latitude), CosScale * TILE_SIZE * Pow2(z))

\* part_001 getMetersPerPixel
getMetersPerPixel(latitude, z) ==
    Ratio(earthCircumference * cos(latitude), CosScale * (TILE_SIZE * Pow2(z)))

\* latLngToTile whose x and y are whole tiles
latLngToTileFloored(lat, lng, z) ==
    LET n == Pow2(z) IN
    [x |-> ((((lng + 180) * n) \div 8) \div PixelFraction) * PixelFraction,
     y |-> ((mercatorY(lat) * n) \div MercatorScale) * MercatorScale]

\* part_001 latLngToTile: fractional tile coordinates
latLngToTile(lat, lng, z) ==
    LET n == Pow2(z) IN
    [x |-> ((lng + 180) * n) \div 8,
     y |-> mercatorY(lat) * n]

\* part_001 tileToLatLng
tileToLatLng(t, z) ==
    LET n == Pow2(z) IN
    [kind |-> "point",
     lat |-> inverseMercatorY(t.y \div n),
     lng |-> ((t.x * 8) \div n) - 180]

\* part_006 latLonToWorldPixel: x in 1/45 pixel, y in quarter pixels
latLonToWorldPixel(lat, lon, z) ==
    [x |-> latLonToWorldPixelX(lon, z),
     y |-> mercatorY(lat) * Pow2(z)]

\* part_006 worldPixelToLatLon
worldPixelToLatLon(p, z) ==
    LET scale == Pow2(z) IN
    [kind |-> "point",
     lat |-> inverseMercatorY(p.y \div scale),
     lng |-> (p.x \div ((TILE_SIZE \div 8) * scale)) - 180]

\* ---- speed and heading of a fix (part_000 calculateSpeedAndHeading) ----
\* Positions are millimetres north and east of a reference point and differ
\* along one axis, timestamps are milliseconds, speeds millimetres per
\* second, headings degrees; null is NullValue, a number a fraction.
NullValue == [kind |-> "null"]
Number(v) == Ratio(v, 1)
MotionPlaces == {<<0, 0>>, <<500, 0>>, <<2000, 0>>, <<0 - 2000, 0>>, <<0, 2000>>, <<0, 0 - 2000>>}
SensorSpeeds == {NullValue, Number(0 - 1000), Number(0), Number(3000)}
SensorHeadings == {NullValue, Number(0 - 1), Number(0), Number(90)}
MotionTimestamps == {1000, 2000, 3000}
PreviousFixes == {NullValue, [kind |-> "fix", place |-> <<0, 0>>, timestamp |-> 2000]}

\* 6371000 * c of the haversine formula, in millimetres
haversineDistance(from, to) == Abs(to[1] - from[1]) + Abs(to[2] - from[2])

\* (Math.atan2(y, x) * 180 / Math.PI + 360) % 360
initialBearing(from, to) ==
    IF to[2] > from[2] THEN 90
    ELSE IF to[2] < from[2] THEN 270
    ELSE IF to[1] < from[1] THEN 180
    ELSE 0

\* calculateSpeedAndHeading that derives a heading from any displacement
calculateSpeedAndHeadingAnyDistance(currentPos, previousPos) ==
    LET enters == /\ previousPos # NullValue
                  /\ (currentPos.speed = NullValue \/ currentPos.heading = NullValue)
        distance == haversineDistance(previousPos.place, currentPos.place)
        timeDiff == currentPos.timestamp - previousPos.timestamp
        calculatedSpeed ==
            IF enters /\ timeDiff > 0 /\ currentPos.speed = NullValue
            THEN Ratio(distance * 1000, timeDiff)
            ELSE currentPos.speed
        calculatedHeading ==
            IF enters /\ currentPos.heading = NullValue
            THEN Number(initialBearing(previousPos.place, currentPos.place))
            ELSE currentPos.heading
    IN [kind |-> "motion",
        speed |-> IF calculatedSpeed # NullValue /\ calculatedSpeed.num >= 0
                  THEN calculatedSpeed ELSE Number(0),
        heading |-> IF calculatedHeading # NullValue /\ calculatedHeading.num >= 0
                    THEN calculatedHeading ELSE NullValue]

calculateSpeedAndHeading(currentPos, previousPos) ==
    LET enters == /\ previousPos # NullValue
                  /\ (currentPos.speed = NullValue \/ currentPos.heading = NullValue)
        distance == haversineDistance(previousPos.place, currentPos.place)
        timeDiff == currentPos.timestamp - previousPos.timestamp
        calculatedSpeed ==
            IF enters /\ timeDiff > 0 /\ currentPos.speed = NullValue
            THEN Ratio(distance * 1000, timeDiff)
            ELSE currentPos.speed
        calculatedHeading ==
            IF enters /\ currentPos.heading = NullValue /\ distance > 1000
            THEN Number(initialBearing(previousPos.place, currentPos.place))
            ELSE currentPos.heading
    IN [kind |-> "motion",
        speed |-> IF calculatedSpeed # NullValue /\ calculatedSpeed.num >= 0
                  THEN calculatedSpeed ELSE Number(0),
        heading |-> IF calculatedHeading # NullValue /\ calculatedHeading.num >= 0
                    THEN calculatedHeading ELSE NullValue]

\* the calls a run makes
GeoCalls ==
    [fn : {"metersPerPixel", "getMetersPerPixel"}, lat : GeoLatitudes, z : GeoZooms]
    \cup [fn : {"tileRoundTrip"}, lat : GeoLatitudes, lng : GeoLongitudes, z : GeoZooms]
    \cup [fn : {"pixelRoundTrip"}, lat : GeoLatitudes, lng : GeoLongitudes,
          z : MIN_ZOOM..MaxPixelZoom]
    \cup [fn : {"calculateSpeedAndHeading"},
          currentPos : [place : MotionPlaces, timestamp : MotionTimestamps,
                        speed : SensorSpeeds, heading : SensorHeadings],
          previousPos : PreviousFixes]

InitGeo ==
    /\ InitSession
    /\ trailPath = <<>>
    /\ totalDistance = 0
    /\ connectionStatus = "online"
    /\ permission = "granted"
    /\ geoSupported = TRUE
    /\ geoArgs \in GeoCalls
    /\ geoValue = NoValue

GeoCall(fn, value) ==
    /\ geoArgs.fn = fn
    /\ geoValue = NoValue
    /\ geoValue' = value
    /\ UNCHANGED <<geoArgs, appVars, gestureVars, tileVars, renderVars>>

CallMetersPerPixel == GeoCall("metersPerPixel", metersPerPixel(geoArgs.lat, geoArgs.z))
CallGetMetersPerPixel == GeoCall("getMetersPerPixel", getMetersPerPixel(geoArgs.lat, geoArgs.z))
CallTileRoundTrip ==
    GeoCall("tileRoundTrip",
            tileToLatLng(latLngToTile(geoArgs.lat, geoArgs.lng, geoArgs.z), geoArgs.z))
CallPixelRoundTrip ==
    GeoCall("pixelRoundTrip",
            worldPixelToLatLon(latLonToWorldPixel(geoArgs.lat, geoArgs.lng, geoArgs.z), geoArgs.z))

CallCalculateSpeedAndHeading ==
    GeoCall("calculateSpeedAndHeading",
            calculateSpeedAndHeading(geoArgs.currentPos, geoArgs.previousPos))

NextGeo ==
    \/ CallCalculateSpeedAndHeading
    \/ CallMetersPerPixel
    \/ CallGetMetersPerPixel
    \/ CallTileRoundTrip
    \/ CallPixelRoundTrip

SpecGeo == InitGeo /\ [][NextGeo]_vars

\* the error one tile of the zoom spans, in whole degrees
RoundTripTolerance(z) == 360 \div Pow2(z)

\* ---- the recovery machinery with its scheduling ----
\* A retry timer that is set fires (setTimeout), and a sensor that is asked
\* again and again answers one of the requests with a position.
FairReconnection ==
    /\ \A l \in LoopIds : WF_vars(attemptReconnect(l))
    /\ \A l \in LoopIds : SF_vars(\E p \in SessionPositions : ReconnectSuccess(l, p))

SpecReconnect == InitRecovery /\ [][NextRecovery]_vars /\ FairReconnection

\* ---- steps named in the properties ----
\* some handler accepts a fix at p
FixAt(p) ==
    \/ \E w \in WatchIds : WatchFix(w, p)
    \/ PollFix(p)
    \/ \E l \in LoopIds : ReconnectSuccess(l, p)

FixStep == \E p \in Positions : FixAt(p)

RunningLoops == {l \in LoopIds : loops[l].phase # "idle"}

\* ---- trail and distance (SpecTrail) ----

\* C1: in every state the accumulated distance equals the sum of the
\* great-circle distances between consecutive points of the recorded trail.
C1_DistanceIsTrailLength == totalDistance = PathLength(trailPath)

\* C2: a fix accepted after the session's first fix, at 1 m or less from the
\* last recorded trail point, leaves the trail and the accumulated distance
\* unchanged.
C2_JitterIgnored ==
    [][\A p \in Positions :
          ( /\ FixAt(p)
            /\ isTracking
            /\ trackingStatus = "tracking"
            /\ Len(trailPath) > 0
            /\ calculateDistance(trailPath[Len(trailPath)], p) <= JitterThresholdMm )
          => UNCHANGED <<trailPath, totalDistance>>]_vars

\* ---- session (Spec) ----

NoTimerOrSubscription ==
    /\ ~gpsCheckTimer
    /\ ~permissionTimer
    /\ ~pollTimer
    /\ \A l \in LoopIds : loops[l].phase # "timer"
    /\ \A w \in WatchIds : watches[w] = "none"

\* C3: stop() leaves the status Inactive, reconnectAttempts 0, and no
\* watchdog, reconnection, permission or poll timer and no position
\* subscription active.
C3_StopHaltsEverything ==
    [][StopTracking =>
          ( /\ trackingStatus' = "inactive"
            /\ reconnectAttempts' = 0
            /\ NoTimerOrSubscription' )]_vars

\* C4: while the session is stopped, a step that is not a start() leaves the
\* status Inactive and reconnectAttempts 0, and creates no timer and no
\* position request.
C4_StoppedStaysStopped ==
    [][( /\ ~isTracking
         /\ trackingStatus = "inactive"
         /\ reconnectAttempts = 0
         /\ ~isTracking' )
       => ( /\ trackingStatus' = "inactive"
            /\ reconnectAttempts' = 0
            /\ ~gpsCheckTimer' /\ ~permissionTimer' /\ ~pollTimer'
            /\ pollInFlight' <= pollInFlight
            /\ \A l \in LoopIds : loops'[l] = loops[l] \/ loops'[l].phase = "idle" )]_vars

\* C5: at most one reconnection loop has a pending timer or a request in
\* flight.
C5_OneReconnectionLoop == Cardinality(RunningLoops) <= 1

\* C6: start() called while the session is active changes nothing: status,
\* timers, trail, distance and counter stay, no subscription is added.
C6_StartWhileActiveIsNoOp ==
    [][(isTracking /\ RetryFromToast) =>
          UNCHANGED <<isTracking, trackingStatus, watchId, watches,
                      reconnectAttempts, trailPath, totalDistance,
                      gpsCheckTimer, permissionTimer, pollTimer, loops>>]_vars

\* C7: the status changes only by the listed steps.
C7_OnlyListedTransitions ==
    [][trackingStatus' # trackingStatus =>
          \/ /\ trackingStatus = "inactive" /\ trackingStatus' = "searching"
             /\ (StartTracking \/ RetryFromToast)
          \/ /\ trackingStatus \in {"searching", "reconnecting"}
             /\ trackingStatus' = "tracking"
             /\ FixStep
          \/ /\ trackingStatus = "tracking"
             /\ trackingStatus' \in {"paused", "reconnecting"}
             /\ \/ Watchdog
                \/ \E w \in WatchIds :
                     handleLocationError(w, "POSITION_UNAVAILABLE")
                       \/ handleLocationError(w, "UNKNOWN")
          \/ /\ trackingStatus = "paused" /\ trackingStatus' = "reconnecting"
          \/ /\ trackingStatus' = "reconnecting"
             /\ \/ \E w \in WatchIds : handleLocationError(w, "TIMEOUT")
                \/ handleOnline
                \/ VisibilityShown
          \/ /\ trackingStatus' = "denied"
             /\ permission = "denied"
             /\ \/ \E w \in WatchIds : handleLocationError(w, "PERMISSION_DENIED")
                \/ \E wasDenied \in BOOLEAN : checkPermission(wasDenied)
          \/ /\ trackingStatus = "denied" /\ trackingStatus' = "reconnecting"
             /\ permission = "granted"
             /\ \E wasDenied \in BOOLEAN : checkPermission(wasDenied)
          \/ /\ trackingStatus' = "inactive"
             /\ StopTracking]_vars

\* ---- watchdog and reconnection loop (SpecRecovery) ----

\* C8: in an active session that is Tracking the watchdog is armed and no
\* reconnection is flagged; when it fires on a signal older than the
\* threshold the status is Reconnecting at once, with a new loop's request in
\* flight; the status never rests in Paused.
C8_WatchdogReconnects ==
    /\ []( (isTracking /\ trackingStatus = "tracking")
             => (gpsCheckTimer /\ ~isReconnectingRef) )
    /\ [](trackingStatus # "paused")
    /\ [][Watchdog =>
            ( /\ trackingStatus' = "reconnecting"
              /\ isReconnectingRef'
              /\ \E l \in LoopIds :
                   loops[l].phase = "idle" /\ loops'[l].phase = "request" )]_vars

\* the watchdog has fired: Reconnecting on a stale signal, request in flight
C8_Witness ==
    /\ isTracking
    /\ Stale
    /\ trackingStatus = "reconnecting"
    /\ isReconnectingRef
    /\ \E l \in LoopIds : loops[l].phase = "request"

LoopStarts == \E l \in LoopIds : loops[l].phase = "idle" /\ loops'[l].phase = "request"

\* C9 as claimed: reconnectAttempts counts the failed requests of the loop:
\* 0 when the loop starts, one more at each failure, unchanged otherwise.
C9_AttemptsCountFailures ==
    [][ /\ LoopStarts => reconnectAttempts' = 0
        /\ \A l \in LoopIds, code \in ErrorCodes :
             ReconnectFail(l, code) => reconnectAttempts' = reconnectAttempts + 1
        /\ \A l \in LoopIds : attemptReconnect(l) => UNCHANGED reconnectAttempts ]_vars

\* C9 amended: reconnectAttempts counts the requests issued: 1 when the loop
\* starts with its first request, unchanged when a request fails, one more
\* when a retry timer issues the next request; a fix accepted while
\* Reconnecting resets it to 0 and returns the status to Tracking.
C9_AttemptsCountRequests ==
    [][ /\ LoopStarts => reconnectAttempts' = 1
        /\ \A l \in LoopIds, code \in ErrorCodes :
             ReconnectFail(l, code) => UNCHANGED reconnectAttempts
        /\ \A l \in LoopIds :
             (attemptReconnect(l) /\ loops'[l].phase = "request")
               => reconnectAttempts' = reconnectAttempts + 1
        /\ (trackingStatus = "reconnecting" /\ FixStep)
               => (reconnectAttempts' = 0 /\ trackingStatus' = "tracking") ]_vars

\* the third request of a loop has failed: the counter is 3
C9_Witness ==
    /\ trackingStatus = "reconnecting"
    /\ Cardinality(RunningLoops) = 1
    /\ \E l \in LoopIds : loops[l].phase = "timer"
    /\ reconnectAttempts = 3

\* C10: an accepted fix leaves the reconnecting flag false, the counter 0 and
\* no reconnect timer pending, and while the status is Tracking, the status an
\* accepted fix leaves, no loop's timer issues a further request.
C10_FixClearsReconnection ==
    [][ /\ FixStep =>
             ( /\ ~isReconnectingRef'
               /\ reconnectAttempts' = 0
               /\ \A l \in LoopIds : loops'[l].phase # "timer" )
        /\ trackingStatus = "tracking" =>
             \A l \in LoopIds :
                ~(loops[l].phase = "timer" /\ loops'[l].phase = "request") ]_vars

\* ---- error taxonomy and permission recovery ----

\* C18: a PositionUnavailable or Unknown error of the position subscription
\* in an active session leaves the status Paused (or Reconnecting, once the
\* reconnection has started) and starts a reconnection request.
C18_UnavailablePausesAndReconnects ==
    [][\A w \in WatchIds, code \in {"POSITION_UNAVAILABLE", "UNKNOWN"} :
          (isTracking /\ handleLocationError(w, code))
            => ( /\ trackingStatus' \in {"paused", "reconnecting"}
                 /\ LoopStarts )]_vars

\* C19: a PermissionDenied error reported to an active session, by the
\* subscription, by a poll request or by a reconnection request, leaves the
\* status Denied.
C19_PermissionDeniedGivesDenied ==
    [][( /\ isTracking
         /\ \/ \E w \in WatchIds : handleLocationError(w, "PERMISSION_DENIED")
            \/ PollError("PERMISSION_DENIED")
            \/ \E l \in LoopIds : ReconnectFail(l, "PERMISSION_DENIED") )
       => trackingStatus' = "denied"]_vars

\* C20: in an active session that is Denied, a permission probe that finds
\* the permission granted leaves the status Reconnecting with a reconnection
\* loop running; no user action is involved.
C20_ProbeRestoresTracking ==
    [][( /\ isTracking
         /\ trackingStatus = "denied"
         /\ permission = "granted"
         /\ checkPermission(TRUE) )
       => ( /\ trackingStatus' = "reconnecting"
            /\ isReconnectingRef'
            /\ RunningLoops' # {} )]_vars

\* the probe has restored a session that never had a fix: only the probe
\* leads from Denied to Reconnecting there
C20_Witness ==
    /\ isTracking
    /\ ~lastUpdateSet
    /\ permission = "granted"
    /\ trackingStatus = "reconnecting"
    /\ RunningLoops # {}

\* ---- map view: zoom and pinch (SpecPinch) ----

\* C13: after any sequence of zoom-in, zoom-out, wheel and pinch operations
\* the zoom lies within [MIN_ZOOM, MAX_ZOOM].
C13_ZoomWithinBounds ==
    /\ zoom >= MIN_ZOOM * ZoomUnit
    /\ zoom <= MAX_ZOOM * ZoomUnit

\* a pinch that asked for more than MAX_ZOOM has been clamped
C13_Witness ==
    /\ isPinchingRef
    /\ zoom = MAX_ZOOM * ZoomUnit
    /\ pinchCenterZoomRef + (lastPinchDistanceRef - pinchStartDistance) > MAX_ZOOM * ZoomUnit

\* C15: the zoom a frame uses to address and place tiles is a whole zoom
\* level within [MIN_ZOOM, MAX_ZOOM], whatever the display zoom is.
C15_TileZoomIsInteger ==
    /\ drawMapTileZoom % ZoomUnit = 0
    /\ drawMapTileZoom >= MIN_ZOOM * ZoomUnit
    /\ drawMapTileZoom <= MAX_ZOOM * ZoomUnit

\* C16: a touchmove of a pinch leaves the zoom at the gesture-start zoom plus
\* the change of the inter-touch distance since the gesture started, clamped;
\* so returning to the initial separation restores the gesture-start zoom.
C16_PinchFromGestureStart ==
    [][\A d \in TouchDistances :
          (touches = 2 /\ isPinchingRef /\ handleTouchMove(d, 0, 0))
            => zoom' = ClampZoom(pinchCenterZoomRef + (d - pinchStartDistance))]_vars

\* ---- map view: tiles and frames (SpecTiles) ----

\* C11: the failure counter of a provider counts every tile whose retries
\* were exhausted since the provider's last successful load, and the primary
\* provider is left on its third such failure.
C11_FailoverOnThirdFailure ==
    /\ \A p \in TileProvider :
          p = currentProvider => providerFallbackAttempts[p] = exhaustedSinceSuccess[p]
    /\ exhaustedSinceSuccess["esri"] >= FailoverThreshold => currentProvider # "esri"

\* C12: a tile whose every fetch fails is fetched 3 times and then loadTile
\* fails; the waits between the fetches are 1000 ms, then 2000 ms.
C12_ThreeFetchesWithBackoff ==
    \A f \in FrameIds, t \in Tiles :
       /\ tileLoads[f][t].fetches <= MAX_RETRY_ATTEMPTS
       /\ tileLoads[f][t].phase = "rejected" => tileLoads[f][t].fetches = MAX_RETRY_ATTEMPTS
       /\ tileLoads[f][t].phase = "waiting" =>
             /\ tileLoads[f][t].fetches < MAX_RETRY_ATTEMPTS
             /\ tileLoads[f][t].delay = RETRY_DELAY * Pow2(tileLoads[f][t].fetches - 1)

\* C17: at most one render is in flight, and a drawMap call made while a
\* render is in flight changes nothing.
C17_OneRenderInFlight ==
    [][ /\ Cardinality(FramesInFlight') <= 1
        /\ \A f \in FrameIds :
              (FramesInFlight # {} /\ drawMap(f)) => UNCHANGED <<frames, tileLoads, isDrawingRef>>
      ]_vars

\* a render is in flight with tiles still loading, where a further drawMap
\* call is possible
C17_Witness ==
    /\ isDrawingRef
    /\ Cardinality(FramesInFlight) = 1
    /\ \E f \in FrameIds : ~frames[f].active
    /\ \E f \in FramesInFlight, t \in Tiles : tileLoads[f][t].phase = "waiting"

\* ---- map view on a tile grid (SpecRender) ----

\* C14: within one frame a geographic point is drawn at the same screen
\* position whether it is located through the tile that contains it or
\* through the projection used for trail points and marker.
C14_SingleOrigin ==
    canvas # BlankCanvas =>
       \A p \in RenderPoints :
          (p \div TILE_SIZE) \in DOMAIN canvas.tiles => ScreenViaTile(p) = ScreenViaOverlay(p)

\* ---- error taxonomy, events and trail (sitting on the session specs) ----

\* C21: a TIMEOUT error of the position subscription, while a session is
\* active and no reconnection is running, starts a reconnection loop, leaves
\* the stored error unchanged and leaves the status neither denied nor
\* inactive: in every such state that is the step the error handler takes.
C21_TimeoutStartsReconnection ==
    \A w \in WatchIds :
       (isTracking /\ ~isReconnectingRef /\ watches[w] # "none" /\ HasFreeLoop)
         => ENABLED ( /\ handleLocationError(w, "TIMEOUT")
                      /\ LoopStarts
                      /\ error' = error
                      /\ trackingStatus' \notin {"denied", "inactive"} )

\* C22: when connectivity is regained, or the app returns to the foreground
\* with the last fix older than 3000 ms, while a session is active, a
\* reconnection loop is started and the status becomes reconnecting; if a
\* loop is already running nothing of the reconnection changes.
C22_EventsTriggerReconnection ==
    [][( \/ isTracking /\ handleOnline
         \/ isTracking /\ wasTrackingBeforeBackgroundRef /\ lastUpdateSet /\ Stale
              /\ VisibilityShown )
        => IF RunningLoops = {}
           THEN LoopStarts /\ trackingStatus' = "reconnecting"
           ELSE UNCHANGED <<loops, trackingStatus, isReconnectingRef, reconnectAttempts>>]_vars

\* C23: the first fix accepted after a start(), also a start() that follows
\* a stop(), is recorded in the trail as its new last point, whatever its
\* distance from any earlier position.
C23_FirstFixRecorded ==
    [][\A p \in Positions :
          (isTracking /\ trackingStatus = "searching" /\ FixAt(p))
            => trailPath' \in {Append(trailPath, p), <<p>>}]_vars

\* C24: the trail only grows by appending at its end: every step other than
\* the reset action leaves it unchanged or extended by exactly one point,
\* and existing points are never removed, replaced or reordered.
C24_TrailAppendOnly ==
    [][ \/ resetTrail
        \/ trailPath' = trailPath
        \/ /\ Len(trailPath') = Len(trailPath) + 1
           /\ SubSeq(trailPath', 1, Len(trailPath)) = trailPath ]_vars

\* ---- map view: follow mode and center ----

\* C25: a two-finger pinch disengages follow mode: after a touchmove of a
\* pinch has changed the zoom, follow mode is off.
C25_PinchDisengagesFollow ==
    [][\A d \in TouchDistances :
          (touches = 2 /\ isPinchingRef /\ handleTouchMove(d, 0, 0) /\ zoom' # zoom)
            => ~isAutoFollow']_vars

\* C26: the recenter action, when a tracked position is known, re-engages
\* follow mode and makes the view center the tracked position; in follow
\* mode the center follows every new position, and only a drag ends it.
C26_RecenterFollows ==
    [][ /\ (location # NoCenter /\ handleRecenter)
            => (isAutoFollow' /\ getMapCenter' = location)
        /\ \A c \in MapCenters :
            (isAutoFollow /\ LocationProp(c)) => (isAutoFollow' /\ getMapCenter' = c)
        /\ (isAutoFollow /\ ~isAutoFollow') => DragMove ]_vars

\* follow mode is engaged on the tracked position although a drag had moved
\* the view elsewhere: the drag in progress started from a manual center
C26_Witness ==
    /\ isAutoFollow
    /\ location # NoCenter
    /\ getMapCenter = location
    /\ dragStartRef \notin MapCenters \cup {NoCenter}

\* C27: zoom operations (buttons, wheel, pinch) never change the geographic
\* coordinate used as the map center.
C27_ZoomKeepsCenter ==
    [][ZoomOperation => getMapCenter' = getMapCenter]_vars

\* a zoom operation has acted on a view centred on a manual center
C27_Witness ==
    /\ zoom # DEFAULT_ZOOM * ZoomUnit
    /\ ~isAutoFollow
    /\ manualCenter # NoCenter
    /\ manualCenter # location

\* ---- map view: tile cache (SpecTiles) ----

\* C28: a cached tile is never removed or replaced; loadTile for a cached key
\* resolves without a new fetch; a loaded image is stored under the key of
\* its own provider and tile and under no other.
C28_CacheKeepsTiles ==
    [][ /\ tileCache \subseteq tileCache'
        /\ \A f \in FrameIds, t \in Tiles :
             TileLoaded(f, t) =>
               /\ <<frames[f].provider, t>> \notin tileCache
               /\ tileCache' = tileCache \cup {<<frames[f].provider, t>>}
        /\ \A f \in FrameIds, t \in Tiles :
             (~frames[f].active /\ frames'[f].active /\ <<currentProvider, t>> \in tileCache)
               => (tileLoads'[f][t].phase = "resolved" /\ tileLoads'[f][t].fetches = 0)
        /\ \A f \in FrameIds, t \in Tiles :
             (RetryTimer(f, t) /\ <<frames[f].provider, t>> \in tileCache)
               => tileLoads'[f][t].fetches = tileLoads[f][t].fetches ]_vars

\* a frame in flight took one tile from the cache and fetches another
C28_Witness ==
    \E f \in FramesInFlight, t \in Tiles, u \in Tiles :
       /\ tileLoads[f][t].phase = "resolved" /\ tileLoads[f][t].fetches = 0
       /\ <<frames[f].provider, t>> \in tileCache
       /\ tileLoads[f][u].phase = "fetching"

\* C29: when tiles keep failing on the last provider the render still
\* completes: a frame whose tiles have all settled can finish, failed tiles
\* are drawn as placeholders, trail and marker are drawn, the provider stays
\* the last one and no error or status change is made.
C29_LastProviderDegrades ==
    /\ [](\A f \in FrameIds :
            (frames[f].active /\ \A t \in Tiles : tileLoads[f][t].phase \in {"resolved", "rejected"})
              => ENABLED FrameDone(f))
    /\ [][\A f \in FrameIds :
            frames[f].provider = "osm" =>
              /\ \A t \in Tiles :
                   TileError(f, t) =>
                     /\ currentProvider' = currentProvider
                     /\ UNCHANGED <<error, trackingStatus>>
                     /\ tileLoads'[f][t].phase = "rejected" => drawn'.tiles[t] = "placeholder"
              /\ FrameDone(f) =>
                   /\ drawn'.overlays
                   /\ ~isDrawingRef'
                   /\ currentProvider' = "osm"
                   /\ UNCHANGED <<error, trackingStatus>>
                   /\ \A t \in Tiles :
                        tileLoads[f][t].phase = "rejected" => drawn'.tiles[t] = "placeholder"]_vars

\* a frame on the last provider has completed with every tile failed
C29_Witness ==
    /\ currentProvider = "osm"
    /\ ~isDrawingRef
    /\ drawn.overlays
    /\ \A t \in Tiles : drawn.tiles[t] = "placeholder"
    /\ exhaustedSinceSuccess["osm"] >= MaxTiles

\* ---- map view: projection ----

\* C30: with the center fixed, zooming in from 12 to 13 exactly doubles the
\* on-screen offset, from the viewport center, of a fixed trail point.
C30_ZoomInDoublesOffset ==
    [][( /\ zoom = 12 * ZoomUnit
         /\ zoom' = 13 * ZoomUnit
         /\ getMapCenter # NoCenter
         /\ getMapCenter' = getMapCenter )
        => \A p \in OverlayPoints : overlayOffsetX(p)' = 2 * overlayOffsetX(p)]_vars

\* the view shows zoom 13 about a known center, trail points off the center
C30_Witness ==
    /\ zoom = 13 * ZoomUnit
    /\ getMapCenter # NoCenter
    /\ \A p \in OverlayPoints : overlayOffsetX(p) # 0

\* C31: metersPerPixel(lat, z + 1) is metersPerPixel(lat, z) / 2, for every
\* latitude and zoom, in both copies of the helper
C31_HalvesPerZoomLevel ==
    /\ (geoArgs.fn = "metersPerPixel" /\ geoValue # NoValue)
        => metersPerPixel(geoArgs.lat, geoArgs.z + 1) = Half(geoValue)
    /\ (geoArgs.fn = "getMetersPerPixel" /\ geoValue # NoValue)
        => getMetersPerPixel(geoArgs.lat, geoArgs.z + 1) = Half(geoValue)
C31_Witness ==
    /\ geoArgs.fn = "metersPerPixel"
    /\ geoArgs.lat = 60
    /\ geoArgs.z = MAX_ZOOM
    /\ geoValue # NoValue
    /\ geoValue.num % 2 = 1
    /\ geoValue.den > 1

C33_OneRequestPerKey ==
    \A p \in TileProvider, t \in Tiles :
        Cardinality({f \in FrameIds :
            /\ frames[f].active
            /\ frames[f].provider = p
            /\ tileLoads[f][t].phase \in {"fetching", "waiting"}}) <= 1
C33_Witness ==
    \E f \in FrameIds, t \in Tiles :
        /\ frames[f].active
        /\ tileLoads[f][t].phase = "waiting"
        /\ tileLoads[f][t].attempt = 1
        /\ isDrawingRef
        /\ drawn.overlays = FALSE

\* C34: a frame does not wait for its tiles: once drawMap has started a frame,
\* the canvas shows the trail, the accuracy circle and the marker, whatever
\* tile requests are outstanding or waiting for a retry
C34_OverlaysDoNotWait ==
    \A f \in FrameIds : frames[f].active => drawn.overlays

\* C35: every tile a frame requests has 0 <= x < 2^z for the frame's tile
\* zoom z: positions outside the world are not fetched
C35_TilesInsideWorld ==
    (getMapCenter # NoCenter /\ drawMapTileZoom % ZoomUnit = 0)
        => \A x \in drawMapTilesX(drawMapTileZoom \div ZoomUnit) :
               0 <= x /\ x < Pow2(drawMapTileZoom \div ZoomUnit)

\* C36: whatever drags were made, in either direction and across the
\* antimeridian, the manual center has its latitude in [-85, 85] and its
\* longitude in [-180, 180)
C36_ManualCenterInRange ==
    manualCenter # NoCenter
        => /\ 0 - 85 <= manualCenter.lat /\ manualCenter.lat <= 85
           /\ 0 - 180 <= manualCenter.lon /\ manualCenter.lon < 180

\* C37: the active provider changes only from esri to google or from google
\* to osm, and only in a step that leaves the failure counter of the provider
\* it abandons at 3 or more; it never moves back and never skips a provider
C37_ProviderMovesOneStep ==
    [][currentProvider' # currentProvider
        => /\ <<currentProvider, currentProvider'>> \in
                {<<"esri", "google">>, <<"google", "osm">>}
           /\ providerFallbackAttempts'[currentProvider] >= FailoverThreshold]_vars
C37_Witness ==
    /\ currentProvider = "osm"
    /\ providerFallbackAttempts["esri"] >= FailoverThreshold
    /\ providerFallbackAttempts["google"] >= FailoverThreshold

\* C38: the stored speed and heading of a fix are the sensor's values when it
\* reports them (a negative speed as 0); when it does not and a prior fix
\* exists, the speed is distance / elapsed seconds and the heading is derived
\* exactly when the fix is more than 1 m from the prior fix; the stored speed
\* is never negative
C38_SpeedAndHeading ==
    (geoArgs.fn = "calculateSpeedAndHeading" /\ geoValue # NoValue) =>
        LET cur == geoArgs.currentPos
            prev == geoArgs.previousPos
            timeDiff == cur.timestamp - prev.timestamp
            distance == haversineDistance(prev.place, cur.place)
        IN /\ geoValue.speed.num >= 0
           /\ cur.speed # NullValue
                => geoValue.speed = IF cur.speed.num >= 0 THEN cur.speed ELSE Number(0)
           /\ (cur.heading # NullValue /\ cur.heading.num >= 0)
                => geoValue.heading = cur.heading
           /\ (cur.speed = NullValue /\ prev # NullValue /\ timeDiff > 0)
                => geoValue.speed = Ratio(distance * 1000, timeDiff)
           /\ (cur.heading = NullValue /\ prev # NullValue)
                => /\ (geoValue.heading # NullValue) = (distance > 1000)
                   /\ distance > 1000
                        => geoValue.heading = Number(initialBearing(prev.place, cur.place))
C38_Witness ==
    /\ geoArgs.fn = "calculateSpeedAndHeading"
    /\ geoArgs.currentPos.speed = NullValue
    /\ geoArgs.currentPos.heading = NullValue
    /\ geoArgs.previousPos # NullValue
    /\ geoArgs.currentPos.place = <<0, 0 - 2000>>
    /\ geoValue # NoValue
    /\ geoValue.speed = Number(2000)
    /\ geoValue.heading = Number(270)

\* C39: the center a frame is drawn around is the manual center when follow
\* mode is off, and the tracked position when follow mode is on and a
\* position is known
C39_RenderCenter ==
    /\ ~isAutoFollow => (manualCenter # NoCenter /\ getMapCenter = manualCenter)
    /\ (isAutoFollow /\ location # NoCenter) => getMapCenter = location
C39_Witness ==
    /\ ~isAutoFollow
    /\ location # NoCenter
    /\ manualCenter # NoCenter
    /\ manualCenter # location
    /\ getMapCenter = manualCenter
    /\ touches = 0

\* C40: in an active session with the permission granted a reconnection loop
\* runs as long as the status is 'reconnecting', whatever the number of failed
\* attempts; and when the sensor answers a request of the loop, a session that
\* is 'reconnecting' gets to 'tracking' (or is stopped, or is at the bound of
\* the attempt counter)
C40_ReconnectsUntilTracking ==
    /\ []((isTracking /\ permission = "granted" /\ trackingStatus = "reconnecting")
            => RunningLoops # {})
    /\ (isTracking /\ trackingStatus = "reconnecting")
         ~> (trackingStatus = "tracking" \/ ~isTracking \/ reconnectAttempts = MaxAttempts)
C40_Witness ==
    /\ isTracking
    /\ trackingStatus = "reconnecting"
    /\ reconnectAttempts = MaxAttempts - 1
    /\ \E l \in LoopIds : loops[l].phase = "timer"
====
